---- MODULE Spec2Model ----
(***************************************************************************)
(* Model of the SPI auto-answer tool: the hotkey listener                   *)
(* (hotkey_listener.py), the orchestrator's trigger handler and pipeline    *)
(* (main.py), the model-based solver's transport and answer parser          *)
(* (api_handler.py), the question bank (excel_handler.py), the screen       *)
(* capture (ocr_handler.py), the answer window (gui_handler.py) and the     *)
(* configuration (utils.py).                                                *)
(***************************************************************************)
EXTENDS Integers, Sequences, FiniteSets, TLC

(***************************************************************************)
(* Bounds of the model.                                                     *)
(***************************************************************************)
\* accepted trigger presses (hotkey mode) or manual 'answer' commands
MaxAccepted == 2
\* trigger presses rejected by the debounce check
MaxDropped == 1
\* presses of the exit hotkey
MaxExitPresses == 1
\* seconds that elapse after start-up
MaxSeconds == 1
\* resolution of the clock: ticks per second of time.time()
TicksPerSecond == 2

\* rows of the first sheet of the question bank
MaxRows == 2
\* calls of show_answer
MaxDisplays == 2
\* times the pointer enters the answer window
MaxEnters == 1
\* calls of ConfigManager.update
MaxUpdates == 1
\* edits of config.json while the program runs
MaxEdits == 1
\* lines of a response of the model
MaxLines == 3

\* signals (SIGINT, SIGTERM) delivered to the process
MaxSignals == 1

\* events waiting in the queue when the reload hotkey is pressed
MaxQueue == 2

(***************************************************************************)
(* Program constants.                                                       *)
(***************************************************************************)
\* hotkey_listener.py:37  self.debounce_interval = 1.0 (seconds)
debounce_interval == 1
\* the debounce interval in clock ticks
DebounceTicks == debounce_interval * TicksPerSecond
\* api_handler.py:32  Retry(total=3, ...)
Retry_total == 3
\* api_handler.py:34  status_forcelist=[429, 500, 502, 503, 504]
status_forcelist == {429, 500, 502, 503, 504}
\* api_handler.py:31-35: Retry(...) is built without allowed_methods, so
\* urllib3's default applies: only idempotent methods are retried on a
\* response status or on a read error.
allowed_methods == {"HEAD", "GET", "PUT", "DELETE", "OPTIONS", "TRACE"}
\* api_handler.py:206  self.session.post(...)
Method == "POST"
\* main.py:249  len(question_text.strip()) < 3
MinTextLen == 3

VARIABLES
    mode,               \* "hotkey" (app.run) or "manual" (run_manual_mode)
    now,                \* reading of time.time(), in ticks
    is_running,         \* HotkeyListener.is_running
    is_listening,       \* HotkeyListener.is_listening
    hotkeys_registered, \* hotkeys hooked by keyboard.add_hotkey
    trigger_callback,   \* HotkeyListener.trigger_callback is set
    start_pc,           \* position of the thread inside start_listening
    loop_pc,            \* position of the listener thread (_listen_loop)
    event_queue,        \* HotkeyListener.event_queue
    last_trigger_time,  \* HotkeyListener.last_trigger_time
    total_triggers,     \* HotkeyListener.stats['total_triggers']
    is_processing,      \* SPIAutoAnswerApp.is_processing (the busy flag)
    stats,              \* SPIAutoAnswerApp.stats
    workers,            \* one record per invocation of _on_hotkey_triggered
    accepted,           \* history: times of the presses that passed debounce
    dropped,            \* history: number of presses the debounce rejected
    exit_presses,       \* history: number of presses of the exit hotkey
    consumed,           \* history: trigger events taken from the queue
    api_call,           \* last call of solve_question: input and result
    call,               \* last call of a stateless operation: input, result
    gui,                \* AnswerWindow and the threads that act on it
    conf,               \* config.json, ConfigManager and the start-up
    app,                \* SPIAutoAnswerApp.run and shutdown
    upd                 \* the call of HotkeyListener.update_hotkeys

\* no stateless operation has been called yet
Idle == [fn |-> "none"]

\* gui_handler.py:20-33  FloatingWindow.__init__: the window is withdrawn,
\* no timer exists, the pointer is outside the window
GuiInit == [is_visible |-> FALSE,    \* FloatingWindow.is_visible
            auto_hide_timer |-> 0,   \* FloatingWindow.auto_hide_timer, 0=None
            timers |-> <<>>,         \* every threading.Timer created so far
            queued |-> 0,            \* _update_display calls queued by after()
            gui_pc |-> "idle",       \* position of the GUI thread
            inside |-> FALSE,        \* the pointer is inside the window
            displays |-> 0,          \* history: calls of show_answer
            enters |-> 0]            \* history: <Enter> events

\* before main() has run: no ConfigManager, no module, no listener
ConfInit == [loaded |-> FALSE,       \* a ConfigManager exists
             file |-> [state |-> "absent", tree |-> <<>> :> "{}"],
                                     \* config.json as last read or written
             config |-> <<>> :> "{}",  \* ConfigManager.config
             started |-> "no",       \* what initialize() returned
             modules |-> "none",     \* the modules constructed
             exit_status |-> "none", \* sys.exit status of main()
             listening |-> FALSE,    \* start_listening has run
             trigger_key |-> "None", \* HotkeyListener.trigger_key
             exit_key |-> "None",    \* HotkeyListener.exit_key
             registered |-> {},      \* keys hooked by keyboard.add_hotkey
             reloaded |-> FALSE,     \* _reload_config has just run
             last |-> [op |-> "none"],  \* the last update or edit
             updates |-> 0,          \* history: calls of update
             edits |-> 0]            \* history: edits of config.json

\* main.py:33 and initialize(): the application is constructed, its signal
\* handlers are installed (line 70) and main() is about to call run()
AppInit == [is_running |-> FALSE,    \* SPIAutoAnswerApp.is_running
            main_pc |-> "run",       \* position of the main thread
            shut |-> <<>>,           \* the calls of shutdown() in progress
            destroyed |-> FALSE,     \* FloatingWindow.destroy has run
            shutdowns |-> 0,         \* history: calls of shutdown returned
            signals |-> 0]           \* history: SIGINT/SIGTERM received

\* no call of update_hotkeys is in progress
UpdInit == [pc |-> "idle",           \* position inside update_hotkeys
            was_listening |-> FALSE, \* its local was_listening
            returned |-> "none"]     \* what the last call returned

vars == <<mode, now, is_running, is_listening, hotkeys_registered,
          trigger_callback, start_pc, loop_pc, event_queue,
          last_trigger_time, total_triggers, is_processing, stats, workers,
          accepted, dropped, exit_presses, consumed, api_call, call, gui,
          conf, app, upd>>

ext_vars == <<call, gui, conf, app, upd>>

listener_vars == <<is_running, is_listening, hotkeys_registered, start_pc,
                   loop_pc, event_queue, last_trigger_time, total_triggers,
                   accepted, dropped, exit_presses, consumed>>

app_vars == <<is_processing, stats, workers>>

(***************************************************************************)
(* api_handler.py: the transport and solve_question.                        *)
(***************************************************************************)
\* What the endpoint does with one attempt: a connection that cannot be
\* established, a failure while reading the response, or a response status.
ConnError == [kind |-> "conn_error", status |-> 0]
ReadError == [kind |-> "read_error", status |-> 0]
Status(s) == [kind |-> "status", status |-> s]

Outcomes == {ConnError, ReadError, Status(200), Status(401), Status(429),
             Status(500)}

\* Bodies of a 200 response.
\*   ok            {"choices": [{"message": {"content": "<text>"}}]}
\*   no_choices    a non-empty mapping without 'choices'
\*   empty_dict    {}
\*   empty_choices {"choices": []}
\*   bad_choice    {"choices": [{}]}
\*   null_content  {"choices": [{"message": {"content": null}}]}
\*   not_json      a body response.json() cannot decode
Bodies == {"ok", "no_choices", "empty_dict", "empty_choices", "bad_choice",
           "null_content", "not_json"}

\* one outcome per attempt the session can make (the first and Retry_total
\* retries)
ScriptLen == Retry_total + 1

RECURSIVE SeqsOfLen(_, _)
SeqsOfLen(S, n) ==
    IF n = 0 THEN {<<>>}
    ELSE {Append(s, x) : s \in SeqsOfLen(S, n - 1), x \in S}

Scripts == SeqsOfLen(Outcomes, ScriptLen)

\* urllib3 Retry._is_method_retryable
IsMethodRetryable(method) == method \in allowed_methods

\* urllib3 Retry.is_retry for a response without a Retry-After header
IsRetry(method, status) ==
    IsMethodRetryable(method) /\ status \in status_forcelist

\* session.post through HTTPAdapter(max_retries=retry_strategy): attempt
\* number i with `total` retries left.  Retry.increment spends one retry, and
\* raises once the count falls below zero; a read error of a method that is
\* not retryable is raised at once.
RECURSIVE Urlopen(_, _, _)
Urlopen(script, i, total) ==
    LET o == script[i]
        exhausted == total - 1 < 0
        again == Urlopen(script, i + 1, total - 1)
        raise == [kind |-> "exception", status |-> 0, attempts |-> i]
    IN  CASE o.kind = "conn_error" ->
                IF exhausted THEN raise ELSE again
          [] o.kind = "read_error" ->
                IF ~IsMethodRetryable(Method) \/ exhausted
                THEN raise ELSE again
          [] OTHER ->
                IF IsRetry(Method, o.status)
                THEN IF exhausted THEN raise ELSE again
                ELSE [kind |-> "response", status |-> o.status,
                      attempts |-> i]

\* _call_api handing back the decoded body whatever the status
CallApiAnyStatus(script, body) ==
    LET r == Urlopen(script, 1, Retry_total)
    IN  [attempts |-> r.attempts,
         value |-> IF r.kind = "response" /\ body # "not_json"
                   THEN body ELSE "None"]

\* _call_api: the decoded 200 body, or "None" for every other status and
\* for every exception (all of them are caught there).
CallApi(script, body) ==
    LET r == Urlopen(script, 1, Retry_total)
    IN  [attempts |-> r.attempts,
         value |-> IF r.kind = "response" /\ r.status = 200
                      /\ body # "not_json"
                   THEN body ELSE "None"]

\* `response and 'choices' in response`
HasChoices(value) ==
    value \in {"ok", "empty_choices", "bad_choice", "null_content"}

\* The body of solve_question's try block: raised is TRUE when an exception
\* leaves it (IndexError, KeyError, or the AttributeError that _parse_answer
\* re-raises from its own except clause when the content is not a string).
SolveBody(script, body) ==
    LET r == CallApi(script, body)
    IN  IF HasChoices(r.value)
        THEN IF r.value = "ok"
             THEN [raised |-> FALSE, success |-> "True", error |-> "absent",
                   attempts |-> r.attempts]
             ELSE [raised |-> TRUE, success |-> "absent", error |-> "absent",
                   attempts |-> r.attempts]
        ELSE [raised |-> FALSE, success |-> "False", error |-> "format",
              attempts |-> r.attempts]

\* solve_question without its `except Exception` clause
SolveQuestionNoCatch(script, body) == SolveBody(script, body)

\* solve_question: the try block and its `except Exception` clause
SolveQuestion(script, body) ==
    LET r == SolveBody(script, body)
    IN  IF r.raised
        THEN [raised |-> FALSE, success |-> "False", error |-> "str(e)",
              attempts |-> r.attempts]
        ELSE r

NoCall == [script |-> <<>>, body |-> "none",
           result |-> [raised |-> FALSE, success |-> "absent",
                       error |-> "absent", attempts |-> 0]]

\* one call of solve_question against an endpoint that follows `script`
\* (the solver keeps no state between calls, so one call is all there is to
\* observe)
solve_question ==
    /\ api_call = NoCall
    /\ \E script \in Scripts, body \in Bodies :
          api_call' = [script |-> script, body |-> body,
                       result |-> SolveQuestion(script, body)]
    /\ UNCHANGED <<mode, now, trigger_callback>>
    /\ UNCHANGED listener_vars
    /\ UNCHANGED app_vars
    /\ UNCHANGED ext_vars

(***************************************************************************)
(* hotkey_listener.py: HotkeyListener.                                      *)
(***************************************************************************)
\* time.time() at start-up: far more than one debounce interval after the
\* initial last_trigger_time = 0
StartTime == DebounceTicks

\* the outcomes of _register_hotkeys: nothing hooked (permission check
\* failed, or the first add_hotkey raised), only the trigger key hooked
\* (add_hotkey of the exit key raised), or every hotkey hooked
RegisterOutcomes == {{}, {"trigger"}, {"trigger", "exit"}}

\* a fresh invocation of _on_hotkey_triggered
NewWorker == [pc |-> "check", text |-> <<>>, hit |-> "none",
              result |-> "none", trace |-> <<>>, answers |-> 0,
              errors |-> 0, statuses |-> 0, escaped |-> FALSE,
              acquired |-> FALSE, read |-> 0]

\* start_listening, lines 75-92: register the hotkeys, then start the
\* listener thread
start_listening_spawn ==
    /\ mode = "hotkey"
    /\ start_pc = "idle"
    /\ ~is_listening
    /\ \E reg \in RegisterOutcomes : hotkeys_registered' = reg
    /\ loop_pc' = "check"
    /\ start_pc' = "spawned"
    /\ UNCHANGED <<mode, now, trigger_callback, is_running, is_listening,
                   event_queue, last_trigger_time, total_triggers, accepted,
                   dropped, exit_presses, consumed, api_call, ext_vars>>
    /\ UNCHANGED app_vars

\* start_listening, line 94
start_listening_set_listening ==
    /\ start_pc = "spawned"
    /\ is_listening' = TRUE
    /\ start_pc' = "listening"
    /\ UNCHANGED <<mode, now, trigger_callback, is_running,
                   hotkeys_registered, loop_pc, event_queue,
                   last_trigger_time, total_triggers, accepted, dropped,
                   exit_presses, consumed, api_call, ext_vars>>
    /\ UNCHANGED app_vars

\* start_listening, lines 95-105
start_listening_set_running ==
    /\ start_pc = "listening"
    /\ is_running' = TRUE
    /\ start_pc' = "started"
    /\ UNCHANGED <<mode, now, trigger_callback, is_listening,
                   hotkeys_registered, loop_pc, event_queue,
                   last_trigger_time, total_triggers, accepted, dropped,
                   exit_presses, consumed, api_call, ext_vars>>
    /\ UNCHANGED app_vars

\* _listen_loop: the test of `while self.is_running`
listen_loop_check ==
    /\ loop_pc = "check"
    /\ loop_pc' = IF is_running THEN "poll" ELSE "exited"
    /\ UNCHANGED <<mode, now, trigger_callback, is_running, is_listening,
                   hotkeys_registered, start_pc, event_queue,
                   last_trigger_time, total_triggers, accepted, dropped,
                   exit_presses, consumed, api_call, ext_vars>>
    /\ UNCHANGED app_vars

\* _process_event_queue finds the queue empty; the loop sleeps and tests
\* is_running again
listen_loop_sleep ==
    /\ loop_pc = "poll"
    /\ event_queue = <<>>
    /\ loop_pc' = "check"
    /\ UNCHANGED <<mode, now, trigger_callback, is_running, is_listening,
                   hotkeys_registered, start_pc, event_queue,
                   last_trigger_time, total_triggers, accepted, dropped,
                   exit_presses, consumed, api_call, ext_vars>>
    /\ UNCHANGED app_vars

\* _execute_trigger: one new thread for the callback when it is set
ExecuteTrigger(ws) ==
    IF trigger_callback THEN Append(ws, NewWorker) ELSE ws

\* _execute_trigger starting two threads for one event
ExecuteTriggerTwice(ws) ==
    IF trigger_callback THEN Append(Append(ws, NewWorker), NewWorker) ELSE ws

\* _process_event_queue takes a 'trigger' event: _handle_event calls
\* _execute_trigger
handle_trigger_event ==
    /\ loop_pc = "poll"
    /\ event_queue # <<>>
    /\ Head(event_queue) = "trigger"
    /\ event_queue' = Tail(event_queue)
    /\ consumed' = consumed + 1
    /\ workers' = ExecuteTrigger(workers)
    /\ UNCHANGED <<mode, now, trigger_callback, is_running, is_listening,
                   hotkeys_registered, start_pc, loop_pc, last_trigger_time,
                   total_triggers, accepted, dropped, exit_presses, api_call, ext_vars,
                   is_processing, stats>>

\* _process_event_queue takes an 'exit' event: _handle_exit finds no
\* exit_callback and calls stop_listening (lines 115-119; the join of the
\* current thread raises and is caught at line 128)
handle_exit_event ==
    /\ loop_pc = "poll"
    /\ event_queue # <<>>
    /\ Head(event_queue) = "exit"
    /\ event_queue' = Tail(event_queue)
    /\ is_running' = FALSE
    /\ is_listening' = FALSE
    /\ hotkeys_registered' = {}
    /\ UNCHANGED <<mode, now, trigger_callback, start_pc, loop_pc,
                   last_trigger_time, total_triggers, accepted, dropped,
                   exit_presses, consumed, api_call, ext_vars>>
    /\ UNCHANGED app_vars

\* the debounce check that also rejects nothing but a repeated reading
TooFrequentOff(current_time, last) == current_time - last < 1

\* _on_trigger_key, line 238: the debounce check
TooFrequent(current_time, last) == current_time - last < DebounceTicks

\* _on_trigger_key: the keyboard hook's callback for the trigger key
on_trigger_key ==
    /\ "trigger" \in hotkeys_registered
    /\ IF TooFrequent(now, last_trigger_time)
       THEN /\ dropped < MaxDropped
            /\ dropped' = dropped + 1
            /\ UNCHANGED <<last_trigger_time, total_triggers, event_queue,
                           accepted>>
       ELSE /\ Len(accepted) < MaxAccepted
            /\ last_trigger_time' = now
            /\ total_triggers' = total_triggers + 1
            /\ event_queue' = Append(event_queue, "trigger")
            /\ accepted' = Append(accepted, now)
            /\ UNCHANGED dropped
    /\ UNCHANGED <<mode, now, trigger_callback, is_running, is_listening,
                   hotkeys_registered, start_pc, loop_pc, exit_presses,
                   consumed, api_call, ext_vars>>
    /\ UNCHANGED app_vars

\* _on_exit_key: the keyboard hook's callback for the exit key
on_exit_key ==
    /\ "exit" \in hotkeys_registered
    /\ exit_presses < MaxExitPresses
    /\ exit_presses' = exit_presses + 1
    /\ event_queue' = Append(event_queue, "exit")
    /\ UNCHANGED <<mode, now, trigger_callback, is_running, is_listening,
                   hotkeys_registered, start_pc, loop_pc, last_trigger_time,
                   total_triggers, accepted, dropped, consumed, api_call, ext_vars>>
    /\ UNCHANGED app_vars

\* time passes
Tick ==
    /\ now < StartTime + MaxSeconds * TicksPerSecond
    /\ now' = now + 1
    /\ UNCHANGED <<mode, trigger_callback, api_call, ext_vars>>
    /\ UNCHANGED listener_vars
    /\ UNCHANGED app_vars

(***************************************************************************)
(* main.py: SPIAutoAnswerApp._on_hotkey_triggered and _process_question.     *)
(***************************************************************************)
\* str.strip() on a text given as a sequence of characters
RECURSIVE LStrip(_)
LStrip(t) == IF t # <<>> /\ Head(t) = " " THEN LStrip(Tail(t)) ELSE t

RECURSIVE RStrip(_)
RStrip(t) ==
    IF t # <<>> /\ t[Len(t)] = " "
    THEN RStrip(SubSeq(t, 1, Len(t) - 1)) ELSE t

Strip(t) == RStrip(LStrip(t))

\* what capture_and_extract returns: "" or the cleaned (stripped) text
OcrTexts == {<<>>, <<"a">>, <<"a", "b">>, <<"a", "b", "c">>,
             <<"a", " ", "c">>, <<"a", " ", "c", "d">>}

\* the endpoint behaviours a pipeline's model call meets
PipelineScripts == {[i \in 1..ScriptLen |-> Status(200)],
                    [i \in 1..ScriptLen |-> Status(401)],
                    [i \in 1..ScriptLen |-> ConnError]}

PipelineBodies == {"ok", "empty_choices"}

\* a length check that lets two-character texts through
TextTooShortOff(question_text) ==
    question_text = <<>> \/ Len(Strip(question_text)) < MinTextLen - 1

\* _process_question, line 249
TextTooShort(question_text) ==
    question_text = <<>> \/ Len(Strip(question_text)) < MinTextLen

Bump(key) == [stats EXCEPT ![key] = @ + 1]

SetWorker(w, r) == workers' = [workers EXCEPT ![w] = r]

\* _process_question's except clause, lines 311-316: the failure result
Failed(r) == [r EXCEPT !.result = "fail", !.pc = "finish"]

\* the early return placed inside the try block, so that `finally` runs
on_hotkey_triggered_busy_reset(w) ==
    /\ w \in DOMAIN workers
    /\ workers[w].pc = "check"
    /\ is_processing
    /\ \E raises \in BOOLEAN :
          SetWorker(w, [workers[w] EXCEPT !.pc = "done",
                                          !.statuses = @ + 1,
                                          !.escaped = raises])
    /\ is_processing' = FALSE
    /\ UNCHANGED stats

\* lines 207-210: the handler reads the busy flag set, notifies and returns
on_hotkey_triggered_busy(w) ==
    /\ w \in DOMAIN workers
    /\ workers[w].pc = "check"
    /\ is_processing
    /\ \E raises \in BOOLEAN :
          SetWorker(w, [workers[w] EXCEPT !.pc = "done",
                                          !.statuses = @ + 1,
                                          !.escaped = raises])
    /\ UNCHANGED <<is_processing, stats>>

\* line 207: the handler reads the busy flag clear
on_hotkey_triggered_free(w) ==
    /\ w \in DOMAIN workers
    /\ workers[w].pc = "check"
    /\ ~is_processing
    /\ SetWorker(w, [workers[w] EXCEPT !.pc = "set"])
    /\ UNCHANGED <<is_processing, stats>>

\* line 212
on_hotkey_triggered_set(w) ==
    /\ w \in DOMAIN workers
    /\ workers[w].pc = "set"
    /\ is_processing' = TRUE
    /\ SetWorker(w, [workers[w] EXCEPT !.pc = "count", !.acquired = TRUE])
    /\ UNCHANGED stats

\* line 213
on_hotkey_triggered_count(w) ==
    /\ w \in DOMAIN workers
    /\ workers[w].pc = "count"
    /\ stats' = Bump("total_requests")
    /\ SetWorker(w, [workers[w] EXCEPT !.pc = "ocr"])
    /\ UNCHANGED is_processing

\* _process_question, lines 245-255: status notification (which may raise),
\* capture_and_extract (which may raise) and the length check
process_question_ocr(w) ==
    /\ w \in DOMAIN workers
    /\ workers[w].pc = "ocr"
    /\ \E status_raises \in BOOLEAN, ocr_raises \in BOOLEAN,
          question_text \in OcrTexts :
          LET r0 == [workers[w] EXCEPT !.statuses = @ + 1]
              r1 == [r0 EXCEPT !.trace = Append(@, "capture")]
              r2 == [r1 EXCEPT !.text = question_text]
          IN  SetWorker(w,
                  IF status_raises THEN Failed(r0)
                  ELSE IF ocr_raises THEN Failed(r1)
                  ELSE IF TextTooShort(question_text) THEN Failed(r2)
                  ELSE [r2 EXCEPT !.pc = "lookup"])
    /\ UNCHANGED <<is_processing, stats>>

\* _process_question, lines 257-278: status notification, search_question,
\* and on a match the counter, show_answer and the success result
process_question_lookup(w) ==
    /\ w \in DOMAIN workers
    /\ workers[w].pc = "lookup"
    /\ \E status_raises \in BOOLEAN, found \in BOOLEAN :
          LET r0 == [workers[w] EXCEPT !.statuses = @ + 1]
              r1 == [r0 EXCEPT !.trace = Append(@, "lookup"),
                               !.hit = IF found THEN "hit" ELSE "miss"]
          IN  IF status_raises
              THEN SetWorker(w, Failed(r0)) /\ UNCHANGED stats
              ELSE IF found
              THEN /\ stats' = Bump("excel_matches")
                   /\ SetWorker(w, [r1 EXCEPT
                          !.trace = Append(@, "show_answer"),
                          !.answers = @ + 1,
                          !.result = "ok",
                          !.pc = "finish"])
              ELSE SetWorker(w, [r1 EXCEPT !.pc = "api"]) /\ UNCHANGED stats
    /\ UNCHANGED is_processing

\* _process_question, lines 280-309: status notification, the counter,
\* solve_question, and show_answer on success
process_question_api(w) ==
    /\ w \in DOMAIN workers
    /\ workers[w].pc = "api"
    /\ \E status_raises \in BOOLEAN, script \in PipelineScripts,
          body \in PipelineBodies :
          LET r0 == [workers[w] EXCEPT !.statuses = @ + 1]
              r1 == [r0 EXCEPT !.trace = Append(@, "api")]
              api_result == SolveQuestion(script, body)
          IN  IF status_raises
              THEN SetWorker(w, Failed(r0)) /\ UNCHANGED stats
              ELSE /\ stats' = Bump("api_calls")
                   /\ SetWorker(w,
                        IF ~api_result.raised /\ api_result.success = "True"
                        THEN [r1 EXCEPT !.trace = Append(@, "show_answer"),
                                        !.answers = @ + 1,
                                        !.result = "ok",
                                        !.pc = "finish"]
                        ELSE Failed(r1))
    /\ UNCHANGED is_processing

\* the handler counting a failure without showing anything
on_hotkey_triggered_result_silent(w) ==
    /\ w \in DOMAIN workers
    /\ workers[w].pc = "finish"
    /\ IF workers[w].result = "ok"
       THEN /\ stats' = Bump("successful_answers")
            /\ SetWorker(w, [workers[w] EXCEPT !.pc = "clear"])
       ELSE /\ stats' = Bump("failed_answers")
            /\ SetWorker(w, [workers[w] EXCEPT !.pc = "clear"])
    /\ UNCHANGED is_processing

\* lines 221-228: the result is counted, and a failure is shown by
\* show_error (which hands an 'error' payload to show_answer and, like it,
\* never raises).  The except clause of lines 230-233 is never entered:
\* _process_question catches every exception of its steps and nothing else
\* in the try block raises.
on_hotkey_triggered_result(w) ==
    /\ w \in DOMAIN workers
    /\ workers[w].pc = "finish"
    /\ IF workers[w].result = "ok"
       THEN /\ stats' = Bump("successful_answers")
            /\ SetWorker(w, [workers[w] EXCEPT !.pc = "clear"])
       ELSE /\ stats' = Bump("failed_answers")
            /\ SetWorker(w, [workers[w] EXCEPT
                   !.trace = Append(@, "show_error"),
                   !.errors = @ + 1,
                   !.pc = "clear"])
    /\ UNCHANGED is_processing

\* the flag cleared only after a successful answer
on_hotkey_triggered_finally_on_success(w) ==
    /\ w \in DOMAIN workers
    /\ workers[w].pc = "clear"
    /\ is_processing' = IF workers[w].result = "ok" THEN FALSE
                        ELSE is_processing
    /\ SetWorker(w, [workers[w] EXCEPT !.pc = "done"])
    /\ UNCHANGED stats

\* lines 234-235: finally
on_hotkey_triggered_finally(w) ==
    /\ w \in DOMAIN workers
    /\ workers[w].pc = "clear"
    /\ is_processing' = FALSE
    /\ SetWorker(w, [workers[w] EXCEPT !.pc = "done"])
    /\ UNCHANGED stats

\* one step of invocation w of the handler
HandlerStep(w) ==
    /\ \/ on_hotkey_triggered_busy(w)
       \/ on_hotkey_triggered_free(w)
       \/ on_hotkey_triggered_set(w)
       \/ on_hotkey_triggered_count(w)
       \/ process_question_ocr(w)
       \/ process_question_lookup(w)
       \/ process_question_api(w)
       \/ on_hotkey_triggered_result(w)
       \/ on_hotkey_triggered_finally(w)
    /\ UNCHANGED <<mode, now, trigger_callback, api_call, ext_vars>>
    /\ UNCHANGED listener_vars

\* run_manual_mode, lines 483-485: the 'answer' command calls the handler
\* on the main thread, so the next command waits for its return
manual_answer ==
    /\ mode = "manual"
    /\ Len(workers) < MaxAccepted
    /\ \A w \in DOMAIN workers : workers[w].pc = "done"
    /\ workers' = Append(workers, NewWorker)
    /\ UNCHANGED <<mode, now, trigger_callback, api_call, ext_vars, is_processing,
                   stats>>
    /\ UNCHANGED listener_vars

(***************************************************************************)
(* excel_handler.py: ExcelHandler, the question bank.                       *)
(*                                                                         *)
(* A text is a sequence of characters.  "k" stands for a run of CJK         *)
(* characters and "?" for the full-width question mark; "1", "2", "a", "A", *)
(* "b", "B" and "k" are word characters (\w), "+" and "?" are not.          *)
(***************************************************************************)
WordChars == {"1", "2", "3", "4", "a", "A", "b", "B", "k"}

\* str.lower() and str.upper(), character by character
LowerChar(c) == IF c = "A" THEN "a" ELSE IF c = "B" THEN "b" ELSE c

UpperChar(c) == IF c = "a" THEN "A" ELSE IF c = "b" THEN "B" ELSE c

Lower(t) == [i \in 1..Len(t) |-> LowerChar(t[i])]

\* a comparison of the correct answer as it is written
UpperOff(t) == t

Upper(t) == [i \in 1..Len(t) |-> UpperChar(t[i])]

\* re.sub(r'\s+', ' ', text): every run of whitespace becomes one space
RECURSIVE CollapseSpaces(_)
CollapseSpaces(t) ==
    IF Len(t) < 2 THEN t
    ELSE IF t[1] = " " /\ t[2] = " " THEN CollapseSpaces(Tail(t))
    ELSE <<t[1]>> \o CollapseSpaces(Tail(t))

\* re.sub(r'[^\w\s\u3040-\u309F\u30A0-\u30FF\u4E00-\u9FAF]', '', text)
RemoveSpecial(t) == SelectSeq(t, LAMBDA c : c \in WordChars \cup {" "})

\* _clean_question_text
clean_question_text(text) ==
    IF text = <<>> THEN <<>>
    ELSE Lower(RemoveSpecial(CollapseSpaces(Strip(text))))

\* `pat in text`
Contains(text, pat) ==
    \E i \in 0..(Len(text) - Len(pat)) :
       SubSeq(text, i + 1, i + Len(pat)) = pat

\* Series.str.contains(re.escape(pat), case=False, na=False) on one cell
ContainsNoCase(text, pat) == Contains(Lower(text), Lower(pat))

\* a cell that holds no value (pd.notna is false for it)
NaN == <<"NaN">>

\* _calculate_match_score, in hundredths.  Four fuzzywuzzy ratios are
\* blended; `blend` is what the blend gives for two texts that differ.
\* Identical texts that hold an ASCII letter or digit score 1.0.
HasAscii(t) == \E i \in DOMAIN t : t[i] \in WordChars \ {"k"}

calculate_match_score(query, target, blend) ==
    IF query = <<>> \/ target = <<>> THEN 0
    ELSE IF query = target /\ HasAscii(query) THEN 100
    ELSE blend

\* labels that follow the spreadsheet's column letters B, C, D...
LettersOfColumns == <<"B", "C", "D", "E", "F", "G">>

\* chr(65 + i) for the i-th answer column, counted from 1 here
Letters == <<"A", "B", "C", "D", "E", "F">>

\* _extract_answer_info: `row` maps the columns of the sheet to cells
OptionLabels(row, sheet_config) ==
    {<<Letters[i]>> : i \in {j \in DOMAIN sheet_config.answer_columns :
                               /\ sheet_config.answer_columns[j] \in DOMAIN row
                               /\ row[sheet_config.answer_columns[j]] # NaN}}

Options(row, sheet_config) ==
    [l \in OptionLabels(row, sheet_config) |->
        row[sheet_config.answer_columns[
               CHOOSE i \in DOMAIN sheet_config.answer_columns :
                  <<Letters[i]>> = l]]]

extract_answer_info(row, sheet_config) ==
    LET options == Options(row, sheet_config)
        correct_column == sheet_config.correct_answer_column
        present == /\ correct_column # "None"
                   /\ correct_column \in DOMAIN row
                   /\ row[correct_column] # NaN
        correct_answer == IF present THEN row[correct_column] ELSE <<>>
    IN  [options |-> options,
         correct_answer |-> correct_answer,
         answer_text |->
            IF ~present THEN <<>>
            ELSE IF Upper(correct_answer) \in DOMAIN options
                 THEN options[Upper(correct_answer)]
                 ELSE correct_answer]

\* one sheet of the cache (a DataFrame after _clean_dataframe): its columns
\* and its rows; `blend` is the blended ratio of the query and the row
Indices(rows) == [i \in 1..Len(rows) |-> i]

Result(sheet_name, idx, row, sheet_config, score, method) ==
    [sheet_name |-> sheet_name,
     row_index |-> idx,
     question |-> row.cells[sheet_config.question_column],
     match_score |-> score,
     answer_info |-> extract_answer_info(row.cells, sheet_config),
     matched_method |-> method]

\* _exact_search_in_sheet: the rows whose stored text contains
\* question_text; on a column of numbers the .str accessor of line 207
\* raises, and the handler of lines 226-228 returns no match
exact_search_in_sheet(question_text, sheet_name, sheet_config, df) ==
    LET column == sheet_config.question_column
        hits == SelectSeq(Indices(df.rows),
                          LAMBDA i : ContainsNoCase(df.rows[i].cells[column],
                                                    question_text))
    IN  IF df.numeric THEN <<>>
        ELSE [j \in 1..Len(hits) |->
                 Result(sheet_name, hits[j], df.rows[hits[j]], sheet_config,
                        100, "exact")]

\* the fuzzy pass of _search_in_sheet, lines 151-176
FuzzyScore(cleaned_question, row, column) ==
    calculate_match_score(cleaned_question,
                          clean_question_text(row.cells[column]), row.blend)

fuzzy_search_in_sheet(cleaned_question, sheet_name, sheet_config, df, threshold) ==
    LET column == sheet_config.question_column
        hits == SelectSeq(Indices(df.rows),
                   LAMBDA i :
                      /\ df.rows[i].cells[column] # <<>>
                      /\ FuzzyScore(cleaned_question, df.rows[i], column)
                            >= threshold)
    IN  [j \in 1..Len(hits) |->
            Result(sheet_name, hits[j], df.rows[hits[j]], sheet_config,
                   FuzzyScore(cleaned_question, df.rows[hits[j]], column),
                   "fuzzy")]

\* a sheet configuration that is a JSON object (the empty function stands
\* for one that is not, such as null)
IsSheetConfig(sheet_config) == DOMAIN sheet_config # {}

\* _search_in_sheet that scans column "A" when the configured question
\* column is not in the sheet
search_in_sheet_any_column(question_text, sheet_name, sheet_config, df, threshold) ==
    IF ~IsSheetConfig(sheet_config) THEN <<>>
    ELSE LET config == IF sheet_config.question_column \in df.columns
                       THEN sheet_config
                       ELSE [sheet_config EXCEPT !.question_column = "A"]
             cleaned_question == clean_question_text(question_text)
         IN  fuzzy_search_in_sheet(cleaned_question, sheet_name, config, df,
                                   threshold)
             \o exact_search_in_sheet(cleaned_question, sheet_name, config,
                                      df)

\* _search_in_sheet: the fuzzy matches, then the exact matches of the
\* CLEANED question text (line 179); sheet_config.get raises on a
\* configuration that is no object and the handler of lines 184-186
\* returns the empty list
search_in_sheet(question_text, sheet_name, sheet_config, df, threshold) ==
    IF ~IsSheetConfig(sheet_config) THEN <<>>
    ELSE IF sheet_config.question_column \notin df.columns THEN <<>>
    ELSE LET cleaned_question == clean_question_text(question_text)
         IN  fuzzy_search_in_sheet(cleaned_question, sheet_name,
                                   sheet_config, df, threshold)
             \o exact_search_in_sheet(cleaned_question, sheet_name,
                                      sheet_config, df)

\* list.sort(key=match_score, reverse=True): stable, best score first
RECURSIVE InsertByScore(_, _)
InsertByScore(r, sorted) ==
    IF sorted = <<>> THEN <<r>>
    ELSE IF Head(sorted).match_score >= r.match_score
         THEN <<Head(sorted)>> \o InsertByScore(r, Tail(sorted))
         ELSE <<r>> \o sorted

RECURSIVE SortByScore(_)
SortByScore(rs) ==
    IF rs = <<>> THEN <<>>
    ELSE InsertByScore(rs[Len(rs)], SortByScore(SubSeq(rs, 1, Len(rs) - 1)))

\* the order in which sheets_config.items() yields the sheets
SheetOrder == <<"S1", "S2">>

\* the loop of search_question, lines 110-116
RECURSIVE AllResults(_, _, _, _, _)
AllResults(question_text, sheets_config, cache, fuzzy_config, k) ==
    IF k > Len(SheetOrder) THEN <<>>
    ELSE LET sheet_name == SheetOrder[k]
             rest == AllResults(question_text, sheets_config, cache,
                                fuzzy_config, k + 1)
         IN  IF sheet_name \notin DOMAIN sheets_config THEN rest
             ELSE IF sheet_name \notin DOMAIN cache THEN rest
             ELSE search_in_sheet(question_text, sheet_name,
                                  sheets_config[sheet_name],
                                  cache[sheet_name],
                                  fuzzy_config.threshold)
                  \o rest

Truncate(rs, n) == SubSeq(rs, 1, IF Len(rs) < n THEN Len(rs) ELSE n)

\* search_question that skips the sort
search_question_unsorted(question_text, sheets_config, cache, fuzzy_config) ==
    Truncate(AllResults(question_text, sheets_config, cache, fuzzy_config,
                        1),
             fuzzy_config.max_results)

\* search_question
SearchQuestion(question_text, sheets_config, cache, fuzzy_config) ==
    Truncate(SortByScore(AllResults(question_text, sheets_config, cache,
                                    fuzzy_config, 1)),
             fuzzy_config.max_results)

\* the stored question texts: the first question of create_sample_excel
\* ('1+1...?'), two short ones, and an empty cell
SampleQuestion == <<"1", "+", "1", "k", "?">>

DbTexts == {SampleQuestion, <<"A", "1">>, <<"a">>, <<>>}

\* the texts searched for
Queries == {SampleQuestion, <<"1", "+", "1">>, <<"a">>, <<"A", "1">>,
            <<"+">>}

\* blended ratios of two different texts: below and above the thresholds
Blends == {50, 90}

\* thresholds (default 0.8, line 163) and maximum counts (default 3,
\* line 122) of excel.fuzzy_match
FuzzyConfigs == [threshold : {80, 100}, max_results : {1, 3}]

\* the layout of create_sample_excel: question in A, options in B..E, the
\* letter of the correct option in F
SampleConfig == [question_column |-> "A",
                 answer_columns |-> <<"B", "C", "D", "E">>,
                 correct_answer_column |-> "F"]

SampleCells(q) == [A |-> q, B |-> <<"1">>, C |-> <<"2">>, D |-> <<"3">>,
                   E |-> <<"4">>, F |-> <<"B">>]

\* a layout with five option columns B..F and the correct letter in G
WideConfig == [question_column |-> "A",
               answer_columns |-> <<"B", "C", "D", "E", "F">>,
               correct_answer_column |-> "G"]

WideCells(q) == [A |-> q, B |-> <<"1">>, C |-> <<"2">>, D |-> <<"3">>,
                 E |-> <<"4">>, F |-> <<"4">>, G |-> <<"B">>]

\* what the second sheet can be
SecondSheets == {"unconfigured", "unloaded", "no_column", "no_object",
                 "numeric", "ok"}

SeqsUpTo(S, n) == UNION {SeqsOfLen(S, k) : k \in 0..n}

\* ExcelHandler.__init__: sheets_config from the configuration, _cache
\* from the workbook
SheetsConfig(second) ==
    IF second = "unconfigured" THEN "S1" :> SampleConfig
    ELSE IF second = "no_object" THEN "S1" :> SampleConfig @@ "S2" :> <<>>
    ELSE "S1" :> SampleConfig
         @@ "S2" :> [WideConfig EXCEPT !.question_column =
                        IF second = "no_column" THEN "Q" ELSE @]

Cache(texts, blendOf, second) ==
    LET df1 == [columns |-> DOMAIN SampleCells(<<>>),
                numeric |-> FALSE,
                rows |-> [i \in 1..Len(texts) |->
                            [cells |-> SampleCells(texts[i]),
                             blend |-> blendOf[texts[i]]]]]
        df2 == [columns |-> DOMAIN WideCells(<<>>),
                numeric |-> second = "numeric",
                rows |-> <<[cells |-> WideCells(IF second = "numeric"
                                                THEN <<"1", "1">>
                                                ELSE SampleQuestion),
                            blend |-> blendOf[SampleQuestion]]>>]
    IN  IF second = "unloaded" THEN "S1" :> df1
        ELSE "S1" :> df1 @@ "S2" :> df2

\* one call of search_question on a bank (the search keeps no state
\* between calls)
search_question ==
    /\ call = Idle
    /\ \E question_text \in Queries, texts \in SeqsUpTo(DbTexts, MaxRows),
          blendOf \in [DbTexts -> Blends], second \in SecondSheets,
          fuzzy_config \in FuzzyConfigs :
          /\ blendOf[<<>>] = 50
          /\ LET sheets_config == SheetsConfig(second)
                 cache == Cache(texts, blendOf, second)
             IN  call' = [fn |-> "search_question",
                          question_text |-> question_text,
                          sheets_config |-> sheets_config,
                          cache |-> cache,
                          fuzzy_config |-> fuzzy_config,
                          all_results |->
                             AllResults(question_text, sheets_config, cache,
                                        fuzzy_config, 1),
                          results |->
                             SearchQuestion(question_text, sheets_config,
                                            cache, fuzzy_config)]
    /\ UNCHANGED <<mode, now, trigger_callback, api_call, gui, conf, app, upd>>
    /\ UNCHANGED listener_vars
    /\ UNCHANGED app_vars

\* the sheet configurations and rows _extract_answer_info is applied to:
\* answer columns in and out of column order, one of them ("X") not in the
\* sheet; option cells that are empty or hold no value; a correct-answer
\* cell that names an option in either case, names none, or is missing
AnswerColumnLists == {<<"B", "C", "D", "E">>, <<"C", "B">>,
                      <<"B", "X", "C">>, <<>>}

CorrectColumns == {"F", "Z", "None"}

CorrectCells == {<<"B">>, <<"b">>, <<"A">>, <<"a">>, <<"D">>, <<"2">>,
                 <<>>, NaN}

\* one call of _extract_answer_info on a matched row
extract_answer_info_of_row ==
    /\ call = Idle
    /\ \E answer_columns \in AnswerColumnLists,
          correct_column \in CorrectColumns,
          b \in {<<"1">>, NaN}, c \in {<<"2">>, <<>>},
          correct \in CorrectCells :
          LET row == [SampleCells(SampleQuestion)
                         EXCEPT !.B = b, !.C = c, !.F = correct]
              sheet_config == [question_column |-> "A",
                               answer_columns |-> answer_columns,
                               correct_answer_column |-> correct_column]
          IN  call' = [fn |-> "extract_answer_info",
                       row |-> row,
                       sheet_config |-> sheet_config,
                       answer_info |->
                          extract_answer_info(row, sheet_config)]
    /\ UNCHANGED <<mode, now, trigger_callback, api_call, gui, conf, app, upd>>
    /\ UNCHANGED listener_vars
    /\ UNCHANGED app_vars

(***************************************************************************)
(* ocr_handler.py: OCRHandler.capture_and_extract.                          *)
(***************************************************************************)
\* what one screen grab does: it returns an image, returns an image of
\* zero width or height, or raises
GrabOutcomes == {"image", "zero", "raise"}

\* capture_screen_region without the second method of lines 207-214
capture_screen_region_one_method(PIL_AVAILABLE, PYAUTOGUI_AVAILABLE, primary, secondary) ==
    IF ~PIL_AVAILABLE THEN [screenshot |-> "None", grabs |-> <<>>]
    ELSE [screenshot |-> IF primary = "image" THEN "image" ELSE "None",
          grabs |-> <<primary>>]

\* capture_screen_region: the image (or "None") and the grabs it made
capture_screen_region(PIL_AVAILABLE, PYAUTOGUI_AVAILABLE, primary, secondary) ==
    IF ~PIL_AVAILABLE THEN [screenshot |-> "None", grabs |-> <<>>]
    ELSE LET first == IF primary = "raise" THEN "None" ELSE primary
             fallback == first = "None" /\ PYAUTOGUI_AVAILABLE
             screenshot == IF ~fallback THEN first
                           ELSE IF secondary = "raise" THEN "None"
                           ELSE secondary
         IN  [screenshot |-> IF screenshot = "zero" THEN "None"
                             ELSE screenshot,
              grabs |-> <<primary>>
                        \o IF fallback THEN <<secondary>> ELSE <<>>]

\* capture_and_extract that goes on without a screenshot
CaptureAndExtractUnguarded(screenshot, auto_detect, text_region, ocr_text) ==
    [text |-> IF screenshot = "None" THEN <<>> ELSE ocr_text,
     detect_calls |-> IF auto_detect THEN 1 ELSE 0,
     cropped |-> auto_detect /\ text_region,
     ocr_calls |-> 1]

\* capture_and_extract, lines 524-537: `text_region` tells whether
\* auto_detect_text_region finds a region, `ocr_text` is what extract_text
\* returns for the image
CaptureAndExtract(screenshot, auto_detect, text_region, ocr_text) ==
    IF screenshot = "None"
    THEN [text |-> <<>>, detect_calls |-> 0, cropped |-> FALSE,
          ocr_calls |-> 0]
    ELSE [text |-> ocr_text,
          detect_calls |-> IF auto_detect THEN 1 ELSE 0,
          cropped |-> auto_detect /\ text_region,
          ocr_calls |-> 1]

\* one call of capture_and_extract
capture_and_extract ==
    /\ call = Idle
    /\ \E PIL_AVAILABLE \in BOOLEAN, PYAUTOGUI_AVAILABLE \in BOOLEAN,
          primary \in GrabOutcomes, secondary \in GrabOutcomes,
          auto_detect \in BOOLEAN, text_region \in BOOLEAN,
          ocr_text \in OcrTexts :
          LET capture == capture_screen_region(PIL_AVAILABLE,
                             PYAUTOGUI_AVAILABLE, primary, secondary)
          IN  call' = [fn |-> "capture_and_extract",
                       PIL_AVAILABLE |-> PIL_AVAILABLE,
                       PYAUTOGUI_AVAILABLE |-> PYAUTOGUI_AVAILABLE,
                       grabs |-> capture.grabs,
                       screenshot |-> capture.screenshot,
                       auto_detect |-> auto_detect,
                       result |-> CaptureAndExtract(capture.screenshot,
                                     auto_detect, text_region, ocr_text)]
    /\ UNCHANGED <<mode, now, trigger_callback, api_call, gui, conf, app, upd>>
    /\ UNCHANGED listener_vars
    /\ UNCHANGED app_vars

(***************************************************************************)
(* gui_handler.py: FloatingWindow, its GUI thread and its timer threads.    *)
(*                                                                         *)
(* gui.timers[t] is the state of the t-th threading.Timer: "armed" while   *)
(* it waits for its delay, "cancelled", or the position of its thread      *)
(* inside hide(): "check" (line 340), "withdraw" (341-342), "cancel"       *)
(* (343-345), "done".                                                      *)
(***************************************************************************)
MaxTimers == MaxDisplays + MaxEnters

GuiOnly ==
    /\ UNCHANGED <<mode, now, trigger_callback, api_call, call, conf, app, upd>>
    /\ UNCHANGED listener_vars
    /\ UNCHANGED app_vars

\* Timer.cancel(): a timer that still waits never runs its function; one
\* that has fired is not affected
Cancel(timers, t) ==
    IF t # 0 /\ timers[t] = "armed"
    THEN [timers EXCEPT ![t] = "cancelled"] ELSE timers

\* _schedule_auto_hide: cancel the current timer, create and start a new one
schedule_auto_hide(g) ==
    [g EXCEPT !.timers = Append(Cancel(g.timers, g.auto_hide_timer), "armed"),
              !.auto_hide_timer = Len(g.timers) + 1]

\* show_answer (called by the pipeline's thread): root.after(0,
\* self._update_display, ...) queues the update for the GUI thread
show_answer ==
    /\ gui.displays < MaxDisplays
    /\ gui' = [gui EXCEPT !.queued = @ + 1, !.displays = @ + 1]
    /\ GuiOnly

\* _update_display on the GUI thread, lines 307-321: the text is replaced
\* and show() makes the window visible
update_display_show ==
    /\ gui.gui_pc = "idle"
    /\ gui.queued > 0
    /\ gui' = [gui EXCEPT !.queued = @ - 1, !.is_visible = TRUE,
                          !.gui_pc = "schedule"]
    /\ GuiOnly

\* _update_display, line 324: _schedule_auto_hide(15)
update_display_schedule ==
    /\ gui.gui_pc = "schedule"
    /\ gui' = [schedule_auto_hide(gui) EXCEPT !.gui_pc = "idle"]
    /\ GuiOnly

\* <Enter> on the GUI thread: _on_mouse_enter cancels the timer
on_mouse_enter ==
    /\ gui.gui_pc = "idle"
    /\ gui.is_visible
    /\ ~gui.inside
    /\ gui.enters < MaxEnters
    /\ gui' = [gui EXCEPT !.inside = TRUE, !.enters = @ + 1,
                          !.timers = Cancel(@, gui.auto_hide_timer),
                          !.auto_hide_timer = 0]
    /\ GuiOnly

\* <Leave> on the GUI thread: _on_mouse_leave calls _schedule_auto_hide()
on_mouse_leave ==
    /\ gui.gui_pc = "idle"
    /\ gui.inside
    /\ gui' = [schedule_auto_hide(gui) EXCEPT !.inside = FALSE]
    /\ GuiOnly

\* the delay of timer t elapses: its thread calls hide()
timer_fire(t) ==
    /\ t \in DOMAIN gui.timers
    /\ gui.timers[t] = "armed"
    /\ gui' = [gui EXCEPT !.timers[t] = "check"]
    /\ GuiOnly

\* hide(), line 340: `if self.root and self.is_visible`
hide_check(t) ==
    /\ t \in DOMAIN gui.timers
    /\ gui.timers[t] = "check"
    /\ gui' = [gui EXCEPT !.timers[t] =
                             IF gui.is_visible THEN "withdraw" ELSE "done"]
    /\ GuiOnly

\* hide(), lines 341-342: withdraw(), is_visible = False
hide_withdraw(t) ==
    /\ t \in DOMAIN gui.timers
    /\ gui.timers[t] = "withdraw"
    /\ gui' = [gui EXCEPT !.is_visible = FALSE, !.timers[t] = "cancel"]
    /\ GuiOnly

\* hide(), lines 343-345: whatever timer auto_hide_timer names now is
\* cancelled and forgotten
hide_cancel(t) ==
    /\ t \in DOMAIN gui.timers
    /\ gui.timers[t] = "cancel"
    /\ gui' = [gui EXCEPT !.timers = [Cancel(@, gui.auto_hide_timer)
                                         EXCEPT ![t] = "done"],
                          !.auto_hide_timer = 0]
    /\ GuiOnly

TimerStep(t) ==
    \/ timer_fire(t)
    \/ hide_check(t)
    \/ hide_withdraw(t)
    \/ hide_cancel(t)

GuiThreadStep ==
    \/ update_display_show
    \/ update_display_schedule

(***************************************************************************)
(* utils.py: ConfigManager and validate_config; main.py: initialize and     *)
(* main; hotkey_listener.py: _reload_config.                                *)
(*                                                                         *)
(* A JSON value is a function from the paths of its leaves to their        *)
(* scalars: a scalar s is (<<>> :> s), the empty object is (<<>> :> "{}"), *)
(* and {"hotkey": {"trigger_key": "F12"}} is                               *)
(* (<<"hotkey", "trigger_key">> :> "F12").                                 *)
(***************************************************************************)
Scalar(s) == <<>> :> s

EmptyDict == <<>> :> "{}"

\* isinstance(value, dict)
IsDict(value) == ~(DOMAIN value = {<<>>} /\ value[<<>>] # "{}")

\* the keys of a dict
Keys(value) == {p[1] : p \in {q \in DOMAIN value : q # <<>>}}

\* value[key]
Child(value, key) ==
    [r \in {Tail(q) : q \in {p \in DOMAIN value : p # <<>> /\ p[1] = key}}
       |-> value[<<key>> \o r]]

\* ConfigManager.get: walk the keys, give the default when a segment is
\* missing or the value reached is not a dict
RECURSIVE Get(_, _, _)
Get(value, keys, default) ==
    IF keys = <<>> THEN value
    ELSE IF IsDict(value) /\ Head(keys) \in Keys(value)
         THEN Get(Child(value, Head(keys)), Tail(keys), default)
         ELSE default

\* config[key] = child
Put(config, key, child) ==
    LET keep == {q \in DOMAIN config : q # <<>> /\ q[1] # key}
        new == {<<key>> \o r : r \in DOMAIN child}
    IN  [q \in keep \cup new |->
            IF q \in keep THEN config[q] ELSE child[Tail(q)]]

\* the walk of ConfigManager.update, lines 75-83: missing keys get an empty
\* dict; stepping into, or assigning into, a value that is not a dict raises
\* TypeError
RECURSIVE UpdateWalk(_, _, _)
UpdateWalk(config, keys, value) ==
    IF ~IsDict(config) THEN [raised |-> TRUE, config |-> config]
    ELSE IF Len(keys) = 1
    THEN [raised |-> FALSE, config |-> Put(config, keys[1], value)]
    ELSE LET key == Head(keys)
             sub == IF key \in Keys(config) THEN Child(config, key)
                    ELSE EmptyDict
             r == UpdateWalk(sub, Tail(keys), value)
         IN  IF r.raised THEN [raised |-> TRUE, config |-> config]
             ELSE [raised |-> FALSE, config |-> Put(config, key, r.config)]

\* the content of config.json: a JSON object, no file, text that is not
\* JSON, or a file that cannot be opened
File(tree) == [state |-> "ok", tree |-> tree]

NoFile == [state |-> "absent", tree |-> EmptyDict]

Malformed == [state |-> "malformed", tree |-> EmptyDict]

Unreadable == [state |-> "unreadable", tree |-> EmptyDict]

\* _load_config returning without an exception: the object in the file, or
\* {} when the file is missing or is not JSON
load_config(file) == IF file.state = "ok" THEN file.tree ELSE EmptyDict

\* validate_config, lines 304-310
required_keys == {<<"api", "api_key">>, <<"api", "api_endpoint">>,
                  <<"ocr", "language">>, <<"excel", "file_path">>,
                  <<"hotkey", "trigger_key">>}

None == Scalar("None")

\* `not x` for a JSON value: None, "" and {} are falsy
Falsy(value) == value \in {None, Scalar(""), EmptyDict}

\* a validation that does not look at the hotkey
validate_config_no_hotkey(config) ==
    \A key \in required_keys \ {<<"hotkey", "trigger_key">>} :
       ~Falsy(Get(config, key, None))

\* validate_config
validate_config(config) ==
    \A key \in required_keys : ~Falsy(Get(config, key, None))

\* a complete configuration (setup_config.py), and the files the program
\* may find: complete, one required key missing or empty, a section that
\* is not an object, other hotkeys, an empty object, no usable file
FullConfig ==
    <<"api", "api_key">> :> "key" @@ <<"api", "api_endpoint">> :> "url"
    @@ <<"ocr", "language">> :> "jpn"
    @@ <<"excel", "file_path">> :> "questions.xlsx"
    @@ <<"hotkey", "trigger_key">> :> "F12"
    @@ <<"hotkey", "exit_key">> :> "F11"

Without(tree, key) == [q \in DOMAIN tree \ {key} |-> tree[q]]

With(tree, keys, s) == UpdateWalk(tree, keys, Scalar(s)).config

ConfigTrees ==
    {FullConfig, EmptyDict}
    \cup {Without(FullConfig, key) : key \in required_keys}
    \cup {With(FullConfig, <<"api", "api_key">>, ""),
          With(FullConfig, <<"ocr">>, "jpn"),
          With(FullConfig, <<"hotkey", "trigger_key">>, "F9"),
          With(FullConfig, <<"hotkey", "exit_key">>, "F10")}

Files == {File(tree) : tree \in ConfigTrees}
         \cup {NoFile, Malformed, Unreadable}

\* what an edit leaves in config.json
EditedFiles == {File(FullConfig),
                File(With(FullConfig, <<"hotkey", "trigger_key">>, "F9")),
                File(With(FullConfig, <<"hotkey", "exit_key">>, "F10")),
                Malformed, Unreadable}

ConfOnly ==
    /\ UNCHANGED <<mode, now, trigger_callback, api_call, call, gui, app, upd>>
    /\ UNCHANGED listener_vars
    /\ UNCHANGED app_vars

\* a configured value as a key name; an object is no key name
KeyName(value) == IF IsDict(value) THEN "{}" ELSE value[<<>>]

\* HotkeyListener.__init__, lines 31-32
TriggerKey(config) ==
    KeyName(Get(config, <<"hotkey", "trigger_key">>, Scalar("F12")))

ExitKey(config) ==
    KeyName(Get(config, <<"hotkey", "exit_key">>, Scalar("F11")))

\* SPIAutoAnswerApp.initialize: ConfigManager() (which raises when the file
\* cannot be opened), validate_config, then the modules; every exception
\* is caught and gives False
initialize(file, modules_ok) ==
    IF file.state = "unreadable"
    THEN [conf EXCEPT !.file = file, !.started = "failed"]
    ELSE LET config == load_config(file)
         IN  IF ~validate_config(config)
             THEN [conf EXCEPT !.file = file, !.loaded = TRUE,
                               !.config = config, !.started = "failed"]
             ELSE IF ~modules_ok
             THEN [conf EXCEPT !.file = file, !.loaded = TRUE,
                               !.config = config, !.modules = "some",
                               !.started = "failed"]
             ELSE [conf EXCEPT !.file = file, !.loaded = TRUE,
                               !.config = config, !.modules = "all",
                               !.trigger_key = TriggerKey(config),
                               !.exit_key = ExitKey(config),
                               !.started = "ok"]

\* main(), line 426: app.initialize()
main_initialize ==
    /\ conf.started = "no"
    /\ \E file \in Files, modules_ok \in BOOLEAN :
          conf' = initialize(file, modules_ok)
    /\ ConfOnly

\* main(), lines 426-428: sys.exit(1) when initialize returned False
main_exit ==
    /\ conf.started = "failed"
    /\ conf.exit_status = "none"
    /\ conf' = [conf EXCEPT !.exit_status = "1"]
    /\ ConfOnly

\* _register_hotkeys: nothing is hooked without the permissions, and
\* keyboard.add_hotkey raises for a value that names no key
KeyNames == {"F9", "F10", "F11", "F12"}

Registered(trigger, exit, permitted) ==
    IF ~permitted \/ trigger \notin KeyNames THEN {}
    ELSE IF exit \notin KeyNames THEN {trigger}
    ELSE {trigger, exit}

\* main(), line 452: app.run() starts the hotkey listener
main_run ==
    /\ conf.started = "ok"
    /\ ~conf.listening
    /\ \E permitted \in BOOLEAN :
          conf' = [conf EXCEPT !.listening = TRUE,
                      !.registered = Registered(conf.trigger_key,
                                                conf.exit_key, permitted)]
    /\ ConfOnly

\* the user edits config.json while the program runs
edit_file ==
    /\ conf.listening
    /\ conf.edits < MaxEdits
    /\ \E file \in EditedFiles :
          /\ file # conf.file
          /\ conf' = [conf EXCEPT !.file = file, !.reloaded = FALSE,
                                  !.last = [op |-> "edit"],
                                  !.edits = @ + 1]
    /\ ConfOnly

\* _reload_config, lines 316-336: the hotkeys are unhooked, _load_config()
\* is called and its result dropped (line 324), the keys are read from the
\* ConfigManager's tree, the hotkeys are hooked again.  An exception (the
\* file cannot be opened) is caught after the unhooking.
reload_config(permitted) ==
    IF conf.file.state = "unreadable"
    THEN [conf EXCEPT !.registered = {}, !.reloaded = TRUE]
    ELSE [conf EXCEPT !.trigger_key = TriggerKey(conf.config),
                      !.exit_key = ExitKey(conf.config),
                      !.registered =
                         Registered(TriggerKey(conf.config),
                                    ExitKey(conf.config), permitted),
                      !.reloaded = TRUE]

\* _process_event_queue takes a 'reload_config' event (ctrl+shift+r)
handle_reload_event ==
    /\ conf.listening
    /\ \E permitted \in BOOLEAN : conf' = reload_config(permitted)
    /\ ConfOnly

\* the key paths and values ConfigManager.update is called with: an
\* existing key, a section, a path with missing segments, a path through
\* a scalar
UpdatePaths == {<<"hotkey", "trigger_key">>, <<"hotkey">>,
                <<"gui", "window", "x">>, <<"api", "api_key", "z">>}

UpdateValues == {Scalar("F9"), <<"exit_key">> :> "F10"}

\* _save_config: the file is rewritten; open() fails and leaves the file
\* as it was; or json.dump fails after open() has truncated the file.
\* Neither failure reaches the caller.
SaveOutcomes == {"written", "open_fails", "dump_fails"}

save_config(file, config, outcome) ==
    IF outcome = "written" THEN File(config)
    ELSE IF outcome = "open_fails" THEN file
    ELSE Malformed

\* ConfigManager.update that gives up quietly instead of raising
update_quiet(key_path, value, outcome) ==
    LET r == UpdateWalk(conf.config, key_path, value)
    IN  [conf EXCEPT !.config = r.config,
                     !.file = save_config(@, r.config, outcome),
                     !.reloaded = FALSE, !.updates = @ + 1,
                     !.last = [op |-> "update", key_path |-> key_path,
                               value |-> value, raised |-> FALSE,
                               outcome |-> outcome,
                               before |-> conf.config]]

\* ConfigManager.update: the walk, the assignment, _save_config; a
\* TypeError of the walk leaves the tree and the file as they were
update(key_path, value, outcome) ==
    LET r == UpdateWalk(conf.config, key_path, value)
    IN  IF r.raised
        THEN [conf EXCEPT !.updates = @ + 1,
                          !.last = [op |-> "update",
                                    key_path |-> key_path,
                                    value |-> value, raised |-> TRUE,
                                    outcome |-> "none",
                                    before |-> conf.config]]
        ELSE [conf EXCEPT !.config = r.config,
                          !.file = save_config(@, r.config, outcome),
                          !.reloaded = FALSE, !.updates = @ + 1,
                          !.last = [op |-> "update", key_path |-> key_path,
                                    value |-> value, raised |-> FALSE,
                                    outcome |-> outcome,
                                    before |-> conf.config]]

\* a call of config.update while the program runs (for one, _stop_drag,
\* gui_handler.py:185-190)
config_update ==
    /\ conf.started = "ok"
    /\ conf.updates < MaxUpdates
    /\ \E key_path \in UpdatePaths, value \in UpdateValues,
          outcome \in SaveOutcomes :
          conf' = update(key_path, value, outcome)
    /\ ConfOnly

(***************************************************************************)
(* api_handler.py: APIHandler._parse_answer.                                *)
(*                                                                         *)
(* A response is a sequence of lines, a line a sequence of characters.     *)
(* The labels are single characters here: "answer" is the answer label of  *)
(* the prompt (line 121; lines 263), "reasoning" the reasoning label       *)
(* (lines 120, 261, 268), "correct" the correct-option label (line 270)    *)
(* and "type" the question-type label (line 266).  ":" is the ASCII colon, *)
(* "fw:" the full-width colon, "k" a CJK character.                        *)
(***************************************************************************)
AnswerLabel == <<"answer", ":">>

ReasoningLabel == <<"reasoning", ":">>

CorrectLabel == <<"correct", ":">>

TypeLabel == <<"type", ":">>

\* line.startswith(prefix)
StartsWith(line, prefix) ==
    Len(line) >= Len(prefix) /\ SubSeq(line, 1, Len(prefix)) = prefix

\* line.split(':', 1)[1].strip() for a line that starts with a label
LabelValue(line) == Strip(SubSeq(line, 3, Len(line)))

\* the loop of lines 257-271 keeping the first value instead of the last
RECURSIVE FirstValue(_, _)
FirstValue(lines, labels) ==
    IF lines = <<>> THEN <<>>
    ELSE LET line == Strip(lines[1])
         IN  IF \E l \in labels : StartsWith(line, l) THEN LabelValue(line)
             ELSE FirstValue(SubSeq(lines, 2, Len(lines)), labels)

\* the loop of lines 257-271: the value of the last line that starts with
\* one of the labels ("" when there is none)
RECURSIVE LastValue(_, _)
LastValue(lines, labels) ==
    IF lines = <<>> THEN <<>>
    ELSE LET line == Strip(lines[Len(lines)])
         IN  IF \E l \in labels : StartsWith(line, l) THEN LabelValue(line)
             ELSE LastValue(SubSeq(lines, 1, Len(lines) - 1), labels)

\* characters that \w matches; a \b lies between one of them and any other
ReWordChars == {"answer", "reasoning", "correct", "type", "k", "4", "2",
                "C", "c", "E"}

OptionLetters == {"C", "c"}

\* re.search(r'\b([A-Da-d])\b', text): the positions of the matches
BareOptions(text) ==
    {i \in DOMAIN text :
        /\ text[i] \in OptionLetters
        /\ i > 1 => text[i - 1] \notin ReWordChars
        /\ i < Len(text) => text[i + 1] \notin ReWordChars}

\* re.search(r'[...].*[:fw:]\s*([A-Da-d])', text): the positions of the
\* letter for the leftmost start; the greedy .* takes the last of them
ColonOptions(text) ==
    {m \in DOMAIN text :
        /\ text[m] \in OptionLetters
        /\ \E i, j \in DOMAIN text :
              /\ i < j /\ j < m
              /\ text[i] \in {"answer", "correct"}
              /\ text[j] \in {":", "fw:"}
              /\ \A n \in (j + 1)..(m - 1) : text[n] = " "}

Min(S) == CHOOSE x \in S : \A y \in S : x <= y

Max(S) == CHOOSE x \in S : \A y \in S : x >= y

\* lines 283-292
ExtractOption(answer) ==
    IF BareOptions(answer) # {}
    THEN <<UpperChar(answer[Min(BareOptions(answer))])>>
    ELSE IF ColonOptions(answer) # {}
    THEN <<UpperChar(answer[Max(ColonOptions(answer))])>>
    ELSE <<>>

NonEmptyLines(lines) ==
    SelectSeq([i \in 1..Len(lines) |-> Strip(lines[i])],
              LAMBDA line : line # <<>>)

\* _parse_answer without the fallback of lines 274-280
ParseAnswerNoFallback(lines) ==
    LET answer == LastValue(lines, {AnswerLabel})
        labelled == LastValue(lines, {CorrectLabel})
    IN  [question_type |-> LastValue(lines, {TypeLabel}),
         reasoning |-> LastValue(lines, {ReasoningLabel}),
         answer |-> answer,
         correct_option |-> IF labelled # <<>> THEN labelled
                            ELSE ExtractOption(answer)]

\* _parse_answer
ParseAnswer(lines) ==
    LET found == LastValue(lines, {AnswerLabel})
        labelled == LastValue(lines, {CorrectLabel})
        answer == IF found = <<>> /\ labelled = <<>>
                  THEN IF NonEmptyLines(lines) # <<>>
                       THEN NonEmptyLines(lines)[Len(NonEmptyLines(lines))]
                       ELSE <<>>
                  ELSE found
    IN  [question_type |-> LastValue(lines, {TypeLabel}),
         reasoning |-> LastValue(lines, {ReasoningLabel}),
         answer |-> answer,
         correct_option |-> IF labelled # <<>> THEN labelled
                            ELSE ExtractOption(answer)]

\* the lines a response is made of
ResponseLines ==
    {<<"answer", ":", " ", "4", "2">>,
     <<"answer", ":", " ", "C">>,
     <<"answer", "fw:", "4", "2">>,
     <<"reasoning", ":", " ", "k">>,
     <<"correct", ":", " ", "c">>,
     <<"C">>, <<" ", "C", " ">>, <<"k", "C">>, <<"k", " ", "E">>,
     <<"answer", "k", ":", "C", "k">>,
     <<"answer", ":", " ">>, <<"type", ":", "k">>,
     <<>>}

\* one call of _parse_answer
parse_answer ==
    /\ call = Idle
    /\ \E lines \in SeqsUpTo(ResponseLines, MaxLines) :
          call' = [fn |-> "parse_answer", lines |-> lines,
                   result |-> ParseAnswer(lines)]
    /\ UNCHANGED <<mode, now, trigger_callback, api_call, gui, conf, app, upd>>
    /\ UNCHANGED listener_vars
    /\ UNCHANGED app_vars

(***************************************************************************)
(* excel_handler.py: ExcelHandler.add_question and _save_to_excel.  The    *)
(* workbook file is the sheets last written to it.                         *)
(***************************************************************************)
\* lines 339-356: the cells of the new row; options beyond the configured
\* answer columns are left out (line 350)
NewRow(sheet_config, question, options, correct_answer) ==
    LET answer_columns == sheet_config.answer_columns
        n == IF Len(options) < Len(answer_columns) THEN Len(options)
             ELSE Len(answer_columns)
        filled == {sheet_config.question_column,
                   sheet_config.correct_answer_column}
                  \cup {answer_columns[i] : i \in 1..n}
    IN  [c \in filled |->
            IF c = sheet_config.correct_answer_column THEN correct_answer
            ELSE IF \E i \in 1..n : answer_columns[i] = c
            THEN options[CHOOSE i \in 1..n :
                            /\ answer_columns[i] = c
                            /\ \A j \in (i + 1)..n : answer_columns[j] # c]
            ELSE question]

\* pd.concat([df, pd.DataFrame([new_row])], ignore_index=True), lines
\* 360-363: the columns of both, cells without a value are NaN
Concat(df, new_row) ==
    LET columns == df.columns \cup DOMAIN new_row
        widen(cells) == [c \in columns |->
                            IF c \in DOMAIN cells THEN cells[c] ELSE NaN]
    IN  [df EXCEPT !.columns = columns,
                   !.rows = [i \in 1..Len(df.rows) |->
                               [df.rows[i] EXCEPT !.cells = widen(@)]]
                            \o <<[cells |-> widen(new_row), blend |-> 50]>>]

WriteOutcomes == {"written", "denied"}

\* _save_to_excel, lines 374-383: every cached sheet is written; a failure
\* is logged and not passed on
save_to_excel(file, cache, outcome) ==
    IF outcome = "written" THEN cache ELSE file

\* add_question, lines 332-372
AddQuestion(sheet_name, question, options, correct_answer, sheets_config, cache, file, outcome) ==
    IF sheet_name \notin DOMAIN sheets_config
    THEN [returned |-> FALSE, cache |-> cache, file |-> file]
    ELSE IF ~IsSheetConfig(sheets_config[sheet_name])
    THEN [returned |-> FALSE, cache |-> cache, file |-> file]
    ELSE LET new_row == NewRow(sheets_config[sheet_name], question, options,
                               correct_answer)
             updated == IF sheet_name \in DOMAIN cache
                        THEN [cache EXCEPT ![sheet_name] = Concat(@, new_row)]
                        ELSE cache
         IN  [returned |-> TRUE, cache |-> updated,
              file |-> save_to_excel(file, updated, outcome)]

\* the option lists given to add_question: none, fewer and more than the
\* four answer columns of the first sheet
OptionLists == {<<>>, <<<<"1">>, <<"2">>>>,
                <<<<"1">>, <<"2">>, <<"3">>, <<"4">>, <<"k">>>>}

\* one call of add_question on a bank as loaded from its workbook
add_question ==
    /\ call = Idle
    /\ \E sheet_name \in {"S1", "S2"}, question \in {<<"a">>, <<"A", "1">>},
          options \in OptionLists, correct_answer \in {<<"A">>, <<"k">>},
          texts \in SeqsUpTo(DbTexts, 1), second \in SecondSheets,
          outcome \in WriteOutcomes :
          LET sheets_config == SheetsConfig(second)
              cache == Cache(texts, [t \in DbTexts |-> 50], second)
              done == AddQuestion(sheet_name, question, options,
                                  correct_answer, sheets_config, cache,
                                  cache, outcome)
          IN  call' = [fn |-> "add_question",
                       sheet_name |-> sheet_name,
                       question |-> question,
                       options |-> options,
                       correct_answer |-> correct_answer,
                       sheets_config |-> sheets_config,
                       cache_before |-> cache,
                       outcome |-> outcome,
                       returned |-> done.returned,
                       cache |-> done.cache,
                       file |-> done.file]
    /\ UNCHANGED <<mode, now, trigger_callback, api_call, gui, conf, app, upd>>
    /\ UNCHANGED listener_vars
    /\ UNCHANGED app_vars

(***************************************************************************)
(* main.py: SPIAutoAnswerApp.run, _main_loop, _signal_handler and          *)
(* shutdown, and the end of main().  A signal handler runs on the main     *)
(* thread: while a call of shutdown() is in progress (app.shut is not      *)
(* empty) the main thread takes no other step.  The threads are daemon     *)
(* threads and end with the process.                                        *)
(***************************************************************************)
AppOnly ==
    /\ UNCHANGED <<mode, now, trigger_callback, api_call, call, gui, conf,
                   upd>>
    /\ UNCHANGED listener_vars
    /\ UNCHANGED app_vars

\* the process has not exited
Alive == app.main_pc # "exited"

\* the main thread is not inside shutdown()
MainFree == Alive /\ app.shut = <<>>

\* the innermost call of shutdown() moves to `pc`
ShutAt(pc) == [app.shut EXCEPT ![Len(app.shut)] = pc]

\* run(), line 128
app_run ==
    /\ mode = "hotkey"
    /\ MainFree
    /\ app.main_pc = "run"
    /\ app' = [app EXCEPT !.is_running = TRUE, !.main_pc = "start"]
    /\ AppOnly

\* run(), line 134: the call of start_listening
app_start_listening ==
    /\ MainFree
    /\ app.main_pc = "start"
    /\ \/ start_listening_spawn
       \/ start_listening_set_listening
       \/ start_listening_set_running

\* run(), lines 139-147: start_listening has returned True
app_started ==
    /\ MainFree
    /\ app.main_pc = "start"
    /\ start_pc = "started"
    /\ app' = [app EXCEPT !.main_pc = "loop"]
    /\ AppOnly

\* _main_loop, line 184: the test of the while loop
main_loop_check ==
    /\ MainFree
    /\ app.main_pc = "loop"
    /\ app' = [app EXCEPT !.main_pc =
                  IF app.is_running /\ is_listening THEN "sleep"
                  ELSE "finally"]
    /\ AppOnly

\* _main_loop, lines 186-189
main_loop_sleep ==
    /\ MainFree
    /\ app.main_pc = "sleep"
    /\ app' = [app EXCEPT !.main_pc = "loop"]
    /\ AppOnly

\* run(), line 154: the finally clause calls shutdown()
run_finally ==
    /\ MainFree
    /\ app.main_pc = "finally"
    /\ app' = [app EXCEPT !.main_pc = "main_finally", !.shut = <<"begin">>]
    /\ AppOnly

\* main(), line 458: the finally clause calls shutdown() again
main_finally ==
    /\ MainFree
    /\ app.main_pc = "main_finally"
    /\ app' = [app EXCEPT !.main_pc = "exit", !.shut = <<"begin">>]
    /\ AppOnly

\* main() returns: the process exits
process_exit ==
    /\ MainFree
    /\ app.main_pc = "exit"
    /\ app' = [app EXCEPT !.main_pc = "exited"]
    /\ AppOnly

\* _signal_handler, lines 120-123: SIGINT or SIGTERM interrupts the main
\* thread wherever it is and calls shutdown()
signal_handler ==
    /\ mode = "hotkey"
    /\ Alive
    /\ app.signals < MaxSignals
    /\ app' = [app EXCEPT !.signals = @ + 1,
                          !.shut = Append(@, "begin")]
    /\ AppOnly

\* shutdown(), line 365
shutdown_set_running ==
    /\ Alive
    /\ app.shut # <<>>
    /\ app.shut[Len(app.shut)] = "begin"
    /\ app' = [app EXCEPT !.is_running = FALSE, !.shut = ShutAt("stop")]
    /\ AppOnly

\* shutdown(), lines 368-369: stop_listening (hotkey_listener.py:115-123;
\* the join gives up after 2 seconds)
shutdown_stop_listening ==
    /\ Alive
    /\ app.shut # <<>>
    /\ app.shut[Len(app.shut)] = "stop"
    /\ is_running' = FALSE
    /\ is_listening' = FALSE
    /\ hotkeys_registered' = {}
    /\ app' = [app EXCEPT !.shut = ShutAt("destroy")]
    /\ UNCHANGED <<mode, now, trigger_callback, start_pc, loop_pc,
                   event_queue, last_trigger_time, total_triggers, accepted,
                   dropped, exit_presses, consumed, api_call, call, gui,
                   conf, upd>>
    /\ UNCHANGED app_vars

\* shutdown(), lines 372-382: gui_window.destroy(), the statistics, return
shutdown_destroy ==
    /\ Alive
    /\ app.shut # <<>>
    /\ app.shut[Len(app.shut)] = "destroy"
    /\ app' = [app EXCEPT !.destroyed = TRUE,
                          !.shutdowns = @ + 1,
                          !.shut = SubSeq(@, 1, Len(@) - 1)]
    /\ AppOnly

\* a step of the main thread
MainStep ==
    \/ app_run
    \/ app_start_listening
    \/ app_started
    \/ main_loop_check
    \/ main_loop_sleep
    \/ run_finally
    \/ main_finally
    \/ process_exit
    \/ shutdown_set_running
    \/ shutdown_stop_listening
    \/ shutdown_destroy

\* a step of the listener thread while the process lives
ListenerStep ==
    /\ Alive
    /\ \/ listen_loop_check
       \/ listen_loop_sleep
       \/ handle_exit_event

(***************************************************************************)
(* hotkey_listener.py: the reload hotkey, _reload_config and               *)
(* update_hotkeys, as far as they hook and unhook hotkeys.                 *)
(***************************************************************************)
\* _on_reload_config: the keyboard hook's callback for ctrl+shift+r, which
\* _register_hotkeys hooks right after the exit key (line 148)
on_reload_key ==
    /\ "exit" \in hotkeys_registered
    /\ Len(event_queue) < MaxQueue
    /\ event_queue' = Append(event_queue, "reload_config")
    /\ UNCHANGED <<mode, now, trigger_callback, is_running, is_listening,
                   hotkeys_registered, start_pc, loop_pc, last_trigger_time,
                   total_triggers, accepted, dropped, exit_presses, consumed,
                   api_call, ext_vars>>
    /\ UNCHANGED app_vars

\* _process_event_queue takes a 'reload_config' event: _reload_config
\* unhooks every hotkey (line 321) and calls _register_hotkeys (line 329)
reload_config_event ==
    /\ loop_pc = "poll"
    /\ event_queue # <<>>
    /\ Head(event_queue) = "reload_config"
    /\ event_queue' = Tail(event_queue)
    /\ \E reg \in RegisterOutcomes : hotkeys_registered' = reg
    /\ UNCHANGED <<mode, now, trigger_callback, is_running, is_listening,
                   start_pc, loop_pc, last_trigger_time, total_triggers,
                   accepted, dropped, exit_presses, consumed, api_call,
                   ext_vars>>
    /\ UNCHANGED app_vars

\* update_hotkeys, lines 401-403, called on a thread of its own
update_hotkeys_unregister ==
    /\ upd.pc = "idle"
    /\ upd.returned = "none"
    /\ upd' = [upd EXCEPT !.pc = "update", !.was_listening = is_listening]
    /\ hotkeys_registered' = IF is_listening THEN {} ELSE hotkeys_registered
    /\ UNCHANGED <<mode, now, trigger_callback, is_running, is_listening,
                   start_pc, loop_pc, event_queue, last_trigger_time,
                   total_triggers, accepted, dropped, exit_presses, consumed,
                   api_call, call, gui, conf, app>>
    /\ UNCHANGED app_vars

\* update_hotkeys, lines 405-425: config.update may raise (then False is
\* returned with nothing hooked again), else the hotkeys are registered
\* again when the listener was listening
update_hotkeys_register ==
    /\ upd.pc = "update"
    /\ \E raises \in BOOLEAN, reg \in RegisterOutcomes :
          IF raises
          THEN /\ upd' = [upd EXCEPT !.pc = "idle", !.returned = "False"]
               /\ UNCHANGED hotkeys_registered
          ELSE /\ upd' = [upd EXCEPT !.pc = "idle",
                                     !.returned = IF upd.was_listening
                                                     /\ reg = {"trigger"}
                                                  THEN "False" ELSE "True"]
               /\ hotkeys_registered' = IF upd.was_listening THEN reg
                                        ELSE hotkeys_registered
    /\ UNCHANGED <<mode, now, trigger_callback, is_running, is_listening,
                   start_pc, loop_pc, event_queue, last_trigger_time,
                   total_triggers, accepted, dropped, exit_presses, consumed,
                   api_call, call, gui, conf, app>>
    /\ UNCHANGED app_vars

(***************************************************************************)
(* main.py: the counters of _on_hotkey_triggered as the interpreter runs   *)
(* them.  `self.stats[key] += 1` reads the entry and writes it back in     *)
(* separate bytecodes, between which another callback thread can run.      *)
(***************************************************************************)
\* line 213: stats['total_requests'] is read
count_read(w) ==
    /\ w \in DOMAIN workers
    /\ workers[w].pc = "count"
    /\ SetWorker(w, [workers[w] EXCEPT !.pc = "count_write",
                                       !.read = stats.total_requests])
    /\ UNCHANGED <<is_processing, stats>>

\* line 213: the value read, plus one, is stored
count_write(w) ==
    /\ w \in DOMAIN workers
    /\ workers[w].pc = "count_write"
    /\ stats' = [stats EXCEPT !.total_requests = workers[w].read + 1]
    /\ SetWorker(w, [workers[w] EXCEPT !.pc = "ocr"])
    /\ UNCHANGED is_processing

\* the counter of the result, lines 221-225
ResultKey(r) ==
    IF r.result = "ok" THEN "successful_answers" ELSE "failed_answers"

\* lines 222 and 225: the counter of the result is read
result_read(w) ==
    /\ w \in DOMAIN workers
    /\ workers[w].pc = "finish"
    /\ SetWorker(w, [workers[w] EXCEPT !.pc = "finish_write",
                                       !.read = stats[ResultKey(workers[w])]])
    /\ UNCHANGED <<is_processing, stats>>

\* lines 222-228: the value read, plus one, is stored; a failure is shown
result_write(w) ==
    /\ w \in DOMAIN workers
    /\ workers[w].pc = "finish_write"
    /\ stats' = [stats EXCEPT ![ResultKey(workers[w])] = workers[w].read + 1]
    /\ SetWorker(w,
          IF workers[w].result = "ok"
          THEN [workers[w] EXCEPT !.pc = "clear"]
          ELSE [workers[w] EXCEPT !.trace = Append(@, "show_error"),
                                  !.errors = @ + 1,
                                  !.pc = "clear"])
    /\ UNCHANGED is_processing

\* one step of invocation w of the handler, the counters in two steps
CountingHandlerStep(w) ==
    /\ \/ on_hotkey_triggered_busy(w)
       \/ on_hotkey_triggered_free(w)
       \/ on_hotkey_triggered_set(w)
       \/ count_read(w)
       \/ count_write(w)
       \/ process_question_ocr(w)
       \/ process_question_lookup(w)
       \/ process_question_api(w)
       \/ result_read(w)
       \/ result_write(w)
       \/ on_hotkey_triggered_finally(w)
    /\ UNCHANGED <<mode, now, trigger_callback, api_call, ext_vars>>
    /\ UNCHANGED listener_vars

(***************************************************************************)
(* The specifications.                                                      *)
(***************************************************************************)
Init ==
    /\ mode \in {"hotkey", "manual"}
    /\ trigger_callback \in IF mode = "manual" THEN {TRUE} ELSE BOOLEAN
    /\ now = StartTime
    /\ is_running = FALSE
    /\ is_listening = FALSE
    /\ hotkeys_registered = {}
    /\ start_pc = "idle"
    /\ loop_pc = "none"
    /\ event_queue = <<>>
    /\ last_trigger_time = 0
    /\ total_triggers = 0
    /\ is_processing = FALSE
    /\ stats = [total_requests |-> 0, excel_matches |-> 0, api_calls |-> 0,
                successful_answers |-> 0, failed_answers |-> 0]
    /\ workers = <<>>
    /\ accepted = <<>>
    /\ dropped = 0
    /\ exit_presses = 0
    /\ consumed = 0
    /\ api_call = NoCall
    /\ call = Idle
    /\ gui = GuiInit
    /\ conf = ConfInit
    /\ app = AppInit
    /\ upd = UpdInit

Next ==
    \/ start_listening_spawn
    \/ start_listening_set_listening
    \/ start_listening_set_running
    \/ listen_loop_check
    \/ listen_loop_sleep
    \/ handle_trigger_event
    \/ handle_exit_event
    \/ on_trigger_key
    \/ on_exit_key
    \/ Tick
    \/ manual_answer
    \/ \E w \in 1..MaxAccepted : HandlerStep(w)

Spec == Init /\ [][Next]_vars

\* Every thread that can take a step eventually takes it: the threads are
\* operating-system threads, and every step of the handler returns (the
\* request has a timeout).
FairSpec ==
    /\ Spec
    /\ WF_vars(start_listening_set_listening)
    /\ WF_vars(start_listening_set_running)
    /\ WF_vars(listen_loop_check)
    /\ WF_vars(listen_loop_sleep)
    /\ WF_vars(handle_trigger_event)
    /\ WF_vars(handle_exit_event)
    /\ \A w \in 1..MaxAccepted : WF_vars(HandlerStep(w))

ApiNext == solve_question

SpecApi == Init /\ [][ApiNext]_vars

\* one call of one stateless operation
CallNext ==
    \/ search_question
    \/ extract_answer_info_of_row
    \/ capture_and_extract
    \/ parse_answer
    \/ add_question

SpecCall == Init /\ [][CallNext]_vars

GuiNext ==
    \/ show_answer
    \/ GuiThreadStep
    \/ on_mouse_enter
    \/ on_mouse_leave
    \/ \E t \in 1..MaxTimers : TimerStep(t)

\* The GUI thread runs every queued update, every timer that is not
\* cancelled fires when its delay has elapsed, and a timer's thread runs
\* hide() to its end.  Calls of show_answer and moves of the pointer come
\* from outside and need not happen.
SpecGui ==
    /\ Init
    /\ [][GuiNext]_vars
    /\ WF_vars(GuiThreadStep)
    /\ \A t \in 1..MaxTimers : WF_vars(TimerStep(t))

ConfNext ==
    \/ main_initialize
    \/ main_exit
    \/ main_run
    \/ edit_file
    \/ handle_reload_event
    \/ config_update

SpecConf == Init /\ [][ConfNext]_vars

ShutNext ==
    \/ MainStep
    \/ ListenerStep
    \/ signal_handler
    \/ Alive /\ on_exit_key

\* The main thread and the listener thread are operating-system threads:
\* each takes its next step when it has one.  Signals and key presses are
\* up to the user.
SpecShut ==
    /\ Init
    /\ [][ShutNext]_vars
    /\ WF_vars(MainStep)
    /\ WF_vars(ListenerStep)

KeysNext ==
    \/ ShutNext
    \/ on_reload_key
    \/ Alive /\ reload_config_event
    \/ update_hotkeys_unregister
    \/ update_hotkeys_register

SpecKeys == Init /\ [][KeysNext]_vars

StatsNext ==
    \/ start_listening_spawn
    \/ start_listening_set_listening
    \/ start_listening_set_running
    \/ listen_loop_check
    \/ listen_loop_sleep
    \/ handle_trigger_event
    \/ handle_exit_event
    \/ on_trigger_key
    \/ on_exit_key
    \/ Tick
    \/ \E w \in 1..MaxAccepted : CountingHandlerStep(w)

SpecStats == Init /\ [][StatsNext]_vars

(***************************************************************************)
(* Properties.                                                              *)
(***************************************************************************)
Range(t) == {t[i] : i \in DOMAIN t}

\* invocation w is inside _process_question
InPipeline(w) == workers[w].pc \in {"ocr", "lookup", "api"}

\* invocation w has set the busy flag and not yet cleared it
InFlight(w) ==
    workers[w].pc \in {"count", "ocr", "lookup", "api", "finish", "clear"}

\* C1: at every moment at most one invocation of the trigger handler is past
\* the busy check and executing the pipeline.
C1_AtMostOnePipeline ==
    Cardinality({w \in DOMAIN workers : InPipeline(w)}) <= 1

\* C2: a handler that reads the busy flag set is dropped: in that step it
\* sends one status notification and returns, having run no pipeline step,
\* with every counter, the busy flag and the event queue unchanged; and an
\* invocation that has returned never runs again.
C2_BusyTriggerDropped ==
    [][\A w \in DOMAIN workers :
          /\ (workers[w].pc = "check" /\ is_processing
                /\ workers'[w] # workers[w])
             => /\ workers'[w].pc = "done"
                /\ workers'[w].statuses = workers[w].statuses + 1
                /\ workers'[w].trace = <<>>
                /\ ~workers'[w].acquired
                /\ stats' = stats
                /\ is_processing' = is_processing
                /\ event_queue' = event_queue
          /\ workers[w].pc = "done" => workers'[w].pc = "done"
                /\ workers'[w].trace = workers[w].trace
                /\ workers'[w].acquired = workers[w].acquired]_vars

\* C2 witness: with the flag set by an invocation still in flight, another
\* invocation has been dropped.
C2_Witness ==
    \E w, v \in DOMAIN workers :
        /\ workers[w].pc = "done" /\ ~workers[w].acquired
        /\ workers[w].statuses = 1
        /\ InFlight(v) /\ is_processing

\* C3: every invocation that sets the busy flag eventually clears it and
\* returns, whatever the outcome, and no exception escapes it; the flag is
\* never true with no pipeline in flight, and never stays true forever.
C3_BusyFlagCleared ==
    /\ [](\A w \in DOMAIN workers :
            workers[w].acquired => ~workers[w].escaped)
    /\ [](is_processing => \E w \in DOMAIN workers : InFlight(w))
    /\ \A w \in 1..MaxAccepted :
          (w \in DOMAIN workers /\ workers[w].acquired)
             ~> (w \in DOMAIN workers /\ workers[w].pc = "done")
    /\ is_processing ~> ~is_processing

\* C3 witness: an invocation whose pipeline failed on an exception (no
\* text was captured) has returned and the flag is clear.
C3_Witness ==
    \E w \in DOMAIN workers :
        /\ workers[w].acquired /\ workers[w].pc = "done"
        /\ workers[w].result = "fail" /\ workers[w].trace = <<"show_error">>
        /\ ~is_processing

\* C4: a trigger press less than the debounce interval after the previous
\* accepted press is not accepted; a dropped press changes neither the
\* queue, last_trigger_time, total_triggers nor the invocations; and any two
\* accepted presses are at least one interval apart.
C4_DebounceDrops ==
    /\ [](\A i, j \in DOMAIN accepted :
            i < j => accepted[j] - accepted[i] >= DebounceTicks)
    /\ [][now - last_trigger_time < DebounceTicks
             => accepted' = accepted]_vars
    /\ [][dropped' # dropped
             => UNCHANGED <<event_queue, last_trigger_time, total_triggers,
                            workers, accepted>>]_vars

\* C4 witness: one press was dropped, and two were accepted.
C4_Witness == dropped = 1 /\ Len(accepted) = 2

NumTriggers(q) == Cardinality({i \in DOMAIN q : q[i] = "trigger"})

\* C5: while the listener is listening and a callback is registered, every
\* accepted press enqueues exactly one event and leads to exactly one
\* invocation of the callback, never zero and never two.
C5_OneInvocationPerPress ==
    /\ [](Len(accepted) = consumed + NumTriggers(event_queue))
    /\ [](mode = "hotkey" /\ trigger_callback => Len(workers) = consumed)
    /\ \A n \in 1..MaxAccepted :
          (mode = "hotkey" /\ trigger_callback /\ is_listening
              /\ Len(accepted) >= n)
             ~> (Len(workers) >= n \/ ~is_listening)

\* the orders in which one invocation can have run its steps
PipelineTraces ==
    {<<>>, <<"capture">>, <<"capture", "lookup">>,
     <<"capture", "lookup", "show_answer">>,
     <<"capture", "lookup", "api">>,
     <<"capture", "lookup", "api", "show_answer">>,
     <<"show_error">>, <<"capture", "show_error">>,
     <<"capture", "lookup", "show_error">>,
     <<"capture", "lookup", "api", "show_error">>}

\* C6: within one invocation the steps run in the order capture, lookup,
\* model call, display; the model is called only after a lookup without a
\* match, the bank is looked up only for a text of at least 3 characters,
\* and a bank hit is displayed without a model call.
C6_StepsInOrder ==
    \A w \in DOMAIN workers :
        LET r == workers[w]
        IN  /\ r.trace \in PipelineTraces
            /\ "api" \in Range(r.trace) => r.hit = "miss"
            /\ "lookup" \in Range(r.trace) => Len(r.text) >= 3
            /\ r.hit = "hit"
                 => r.trace = <<"capture", "lookup", "show_answer">>

\* C6 witness: one invocation displayed a bank hit and another displayed a
\* model answer after a lookup without a match.
C6_Witness ==
    \E w, v \in DOMAIN workers :
        /\ workers[w].trace = <<"capture", "lookup", "show_answer">>
        /\ workers[v].trace = <<"capture", "lookup", "api", "show_answer">>

\* C7: every invocation that acquired the busy flag ends with exactly one
\* result shown: show_answer once on success, show_error once on failure,
\* never both and never neither.
C7_ExactlyOneResult ==
    \A w \in DOMAIN workers :
        LET r == workers[w]
        IN  /\ r.answers + r.errors <= 1
            /\ (r.acquired /\ r.pc \in {"clear", "done"})
                 => /\ r.answers + r.errors = 1
                    /\ r.answers = 1 <=> r.result = "ok"

\* C7 witness: one invocation ended with show_answer and another, whose
\* model call failed, with show_error.
C7_Witness ==
    \E w, v \in DOMAIN workers :
        /\ workers[w].pc = "done" /\ workers[w].answers = 1
        /\ workers[v].pc = "done" /\ workers[v].errors = 1
        /\ workers[v].trace = <<"capture", "lookup", "api", "show_error">>

\* C8: solve_question never raises: for every transport outcome it returns
\* a mapping with a boolean 'success', and with an 'error' when it is false.
C8_SolveNeverRaises ==
    api_call.body # "none"
       => /\ ~api_call.result.raised
          /\ api_call.result.success \in {"True", "False"}
          /\ api_call.result.success = "False"
                => api_call.result.error # "absent"

\* C8 witness: a 200 response with an empty 'choices' list came back as a
\* failure carrying the exception's text.
C8_Witness ==
    /\ api_call.body = "empty_choices"
    /\ api_call.script[1] = Status(200)
    /\ api_call.result.success = "False"
    /\ api_call.result.error = "str(e)"

\* C9: when the endpoint answers 500, 500 and then 200, the solver retries,
\* returns success=true, and makes at most 3 attempts.
C9_RetryThenSuccess ==
    (/\ api_call.body = "ok"
     /\ SubSeq(api_call.script, 1, 3)
           = <<Status(500), Status(500), Status(200)>>)
       => /\ api_call.result.success = "True"
          /\ api_call.result.attempts <= 3

\* the first attempt gets a status that is neither 200 nor in the retry list
FirstStatusOther ==
    /\ api_call.body # "none"
    /\ api_call.script[1].kind = "status"
    /\ api_call.script[1].status \notin status_forcelist \cup {200}

MinScore(rs) ==
    CHOOSE m \in {rs[i].match_score : i \in DOMAIN rs} :
       \A i \in DOMAIN rs : m <= rs[i].match_score

Above(rs, m) == Cardinality({i \in DOMAIN rs : rs[i].match_score > m})

\* C11: search_question returns only matches of sheets that are configured
\* and loaded, each with a score of at least the threshold, best score
\* first, at most max_results of them, and every match that scores higher
\* than a returned one is returned too.
C11_SearchContract ==
    call.fn = "search_question"
       => LET rs == call.results
              all == call.all_results
              max_results == call.fuzzy_config.max_results
          IN  /\ \A i \in DOMAIN rs :
                    /\ rs[i].sheet_name \in DOMAIN call.sheets_config
                    /\ rs[i].sheet_name \in DOMAIN call.cache
                    /\ rs[i].match_score >= call.fuzzy_config.threshold
                    /\ rs[i] \in Range(all)
              /\ \A i, j \in DOMAIN rs :
                    i < j => rs[i].match_score >= rs[j].match_score
              /\ Len(rs) <= max_results
              /\ Len(rs) = IF Len(all) < max_results THEN Len(all)
                           ELSE max_results
              /\ rs # <<>> => Above(all, MinScore(rs)) = Above(rs, MinScore(rs))

\* C11 witness: more matches than the maximum count, found in both sheets,
\* the best of them not the first one found
C11_Witness ==
    /\ call.fn = "search_question"
    /\ Len(call.all_results) > call.fuzzy_config.max_results
    /\ Len(call.results) = 3
    /\ {call.all_results[i].sheet_name : i \in DOMAIN call.all_results}
          = {"S1", "S2"}
    /\ call.all_results[1].match_score < call.results[1].match_score

\* the sheets search_question searches: configured, loaded, and holding
\* their question column
Searched(sheet_name) ==
    /\ sheet_name \in DOMAIN call.sheets_config
    /\ sheet_name \in DOMAIN call.cache
    /\ IsSheetConfig(call.sheets_config[sheet_name])
    /\ call.sheets_config[sheet_name].question_column
          \in call.cache[sheet_name].columns

StoredText(sheet_name, i) ==
    call.cache[sheet_name].rows[i].cells[
       call.sheets_config[sheet_name].question_column]

\* C12: every row whose stored question text contains the query as a
\* case-insensitive substring is reported by the exact pass, with score 1.0
\* and method "exact".
C12_ExactPassReports ==
    call.fn = "search_question"
       => \A sheet_name \in {"S1", "S2"} :
             Searched(sheet_name)
                => \A i \in DOMAIN call.cache[sheet_name].rows :
                      ContainsNoCase(StoredText(sheet_name, i),
                                     call.question_text)
                         => \E k \in DOMAIN call.all_results :
                               /\ call.all_results[k].sheet_name = sheet_name
                               /\ call.all_results[k].row_index = i
                               /\ call.all_results[k].matched_method = "exact"
                               /\ call.all_results[k].match_score = 100

\* the query is the sample question and a searched sheet stores it
SampleScenario ==
    /\ call.fn = "search_question"
    /\ call.question_text = SampleQuestion
    /\ \E sheet_name \in {"S1", "S2"} :
          /\ Searched(sheet_name)
          /\ \E i \in DOMAIN call.cache[sheet_name].rows :
                StoredText(sheet_name, i) = SampleQuestion

OptionPositions ==
    {i \in DOMAIN call.sheet_config.answer_columns :
        /\ call.sheet_config.answer_columns[i] \in DOMAIN call.row
        /\ call.row[call.sheet_config.answer_columns[i]] # NaN}

\* the value of the correct-answer field ("" when the row has none)
RawCorrect ==
    LET column == call.sheet_config.correct_answer_column
    IN  IF column \in DOMAIN call.row /\ call.row[column] # NaN
        THEN call.row[column] ELSE <<>>

\* the text names the letter of position i, in either case
NamesOption(text, i) ==
    text = <<Letters[i]>> \/ text = <<LowerChar(Letters[i])>>

\* C14: the i-th configured answer column is option A, B, C... by its
\* position i, and the answer text is the text of the option the
\* correct-answer field names (in either case) when the row has that
\* option, otherwise the raw correct-answer value.
C14_OptionsByPosition ==
    call.fn = "extract_answer_info"
       => LET info == call.answer_info
          IN  /\ DOMAIN info.options = {<<Letters[i]>> : i \in OptionPositions}
              /\ \A i \in OptionPositions :
                    info.options[<<Letters[i]>>]
                       = call.row[call.sheet_config.answer_columns[i]]
              /\ \A i \in OptionPositions :
                    NamesOption(RawCorrect, i)
                       => info.answer_text
                            = call.row[call.sheet_config.answer_columns[i]]
              /\ (\A i \in OptionPositions : ~NamesOption(RawCorrect, i))
                    => info.answer_text = RawCorrect

\* C14 witness: the answer columns are configured as C, B; the correct
\* answer "b" is resolved to the text of column B, the second option
C14_Witness ==
    /\ call.fn = "extract_answer_info"
    /\ call.sheet_config.answer_columns = <<"C", "B">>
    /\ call.row.B = <<"1">>
    /\ call.row.C = <<"2">>
    /\ RawCorrect = <<"b">>
    /\ call.answer_info.answer_text = <<"1">>

\* C15: when no screen grab produces an image, capture_and_extract returns
\* the empty string without detecting a text region and without an OCR
\* call.
C15_NoImageNoOcr ==
    (/\ call.fn = "capture_and_extract"
     /\ \A i \in DOMAIN call.grabs : call.grabs[i] = "raise")
       => /\ call.result.text = <<>>
          /\ call.result.detect_calls = 0
          /\ call.result.ocr_calls = 0

\* C15 witness: the primary grab and then the fallback grab both raise,
\* with region detection switched on
C15_Witness ==
    /\ call.fn = "capture_and_extract"
    /\ call.grabs = <<"raise", "raise">>
    /\ call.auto_detect
    /\ call.result.text = <<>>
    /\ call.result.ocr_calls = 0

\* C16: a displayed answer is eventually hidden again unless the pointer
\* enters the window, also when an earlier timer fires while a new display
\* is being processed.
C16_EventuallyHidden ==
    (gui.is_visible /\ ~gui.inside) ~> (~gui.is_visible \/ gui.inside)

\* C17: once the reload event has been handled, the in-memory
\* configuration and the listener's trigger and exit keys are those of the
\* file, and the hotkeys hooked are hooked for those keys.
C17_ReloadReadsFile ==
    (conf.reloaded /\ conf.file.state = "ok")
       => /\ conf.config = conf.file.tree
          /\ conf.trigger_key = TriggerKey(conf.file.tree)
          /\ conf.exit_key = ExitKey(conf.file.tree)
          /\ conf.registered \subseteq {TriggerKey(conf.file.tree),
                                        ExitKey(conf.file.tree)}

\* some leaf of the tree lies at or below the path
HasPath(tree, path) ==
    \E q \in DOMAIN tree :
       Len(q) >= Len(path) /\ SubSeq(q, 1, Len(path)) = path

\* a proper prefix of the path names a value that is not an object
CrossesScalar(tree, path) ==
    \E n \in 1..(Len(path) - 1) :
       /\ SubSeq(path, 1, n) \in DOMAIN tree
       /\ tree[SubSeq(path, 1, n)] # "{}"

Defaults == {None, Scalar("default")}

GetPaths == UpdatePaths \cup required_keys \cup {<<"nothing">>}

\* a get of a path with a missing segment returns the default
MissingGivesDefault ==
    \A path \in GetPaths, d \in Defaults :
       (\E n \in 1..Len(path) : ~HasPath(conf.config, SubSeq(path, 1, n)))
          => Get(conf.config, path, d) = d

RequiredKeyMissing(file) ==
    \/ file.state # "ok"
    \/ \E key \in required_keys : ~HasPath(file.tree, key)

\* C19: when a required key is missing at start-up, initialize returns
\* False with no module constructed, the listener is never started, and
\* the only way on is sys.exit(1).
C19_StartupValidation ==
    (/\ conf.started # "no"
     /\ conf.edits = 0
     /\ conf.updates = 0
     /\ RequiredKeyMissing(conf.file))
       => /\ conf.started = "failed"
          /\ conf.modules = "none"
          /\ ~conf.listening
          /\ conf.registered = {}
          /\ conf.exit_status \in {"none", "1"}
          /\ conf.exit_status = "none" => ENABLED main_exit

\* C19 witness: only hotkey.trigger_key is missing, and the process has
\* exited with status 1
C19_Witness ==
    /\ conf.file = File(Without(FullConfig, <<"hotkey", "trigger_key">>))
    /\ conf.started = "failed"
    /\ conf.modules = "none"
    /\ conf.exit_status = "1"

\* the stripped line starts with one of the four labels
Labelled(line) ==
    \E l \in {AnswerLabel, ReasoningLabel, CorrectLabel, TypeLabel} :
       StartsWith(Strip(line), l)

AnswerLines(lines) ==
    {i \in DOMAIN lines : StartsWith(Strip(lines[i]), AnswerLabel)}

\* C20: a response whose answer line reads "answer: 42" gives the answer
\* "42"; a response without a labelled line whose last non-empty line is
\* a bare "C" gives the answer "C" and the option "C".
C20_ParseRoundTrip ==
    call.fn = "parse_answer"
       => /\ (/\ Cardinality(AnswerLines(call.lines)) = 1
              /\ \E i \in AnswerLines(call.lines) :
                    call.lines[i] = <<"answer", ":", " ", "4", "2">>)
                => call.result.answer = <<"4", "2">>
          /\ (/\ \A i \in DOMAIN call.lines : ~Labelled(call.lines[i])
              /\ NonEmptyLines(call.lines) # <<>>
              /\ NonEmptyLines(call.lines)[Len(NonEmptyLines(call.lines))]
                    = <<"C">>)
                => /\ call.result.answer = <<"C">>
                   /\ call.result.correct_option = <<"C">>

\* C20 witness: free text, then a bare "C" followed by an empty line
C20_Witness ==
    /\ call.fn = "parse_answer"
    /\ call.lines = <<<<"k", " ", "E">>, <<" ", "C", " ">>, <<>>>>
    /\ call.result.answer = <<"C">>
    /\ call.result.correct_option = <<"C">>

\* the lines of a response that start with the label, stripped
LabelLines(lines, label) ==
    {i \in DOMAIN lines : StartsWith(Strip(lines[i]), label)}

\* the value of the i-th line
ValueAt(lines, i) == LabelValue(Strip(lines[i]))

\* C21 as stated: when several lines carry the same label, the value
\* extracted for the label is the one of the first such line.
C21_FirstLineWins ==
    call.fn = "parse_answer"
       => /\ LabelLines(call.lines, AnswerLabel) # {}
                => call.result.answer
                      = ValueAt(call.lines,
                                Min(LabelLines(call.lines, AnswerLabel)))
          /\ LabelLines(call.lines, ReasoningLabel) # {}
                => call.result.reasoning
                      = ValueAt(call.lines,
                                Min(LabelLines(call.lines, ReasoningLabel)))

\* C21 amended: the value extracted for a label is the one of the last line
\* that carries it; an answer whose last value is empty, with no
\* correct-option value either, is replaced by the last non-empty line, and
\* an empty correct-option value by the letter found in the answer.
C21_LastLineWins ==
    call.fn = "parse_answer"
       => LET lines == call.lines
              last(label) == ValueAt(lines, Max(LabelLines(lines, label)))
              has(label) == LabelLines(lines, label) # {}
              labelled == IF has(CorrectLabel) THEN last(CorrectLabel)
                          ELSE <<>>
          IN  /\ has(TypeLabel)
                    => call.result.question_type = last(TypeLabel)
              /\ has(ReasoningLabel)
                    => call.result.reasoning = last(ReasoningLabel)
              /\ has(AnswerLabel)
                    => call.result.answer
                          = IF last(AnswerLabel) = <<>> /\ labelled = <<>>
                            THEN NonEmptyLines(lines)[Len(NonEmptyLines(lines))]
                            ELSE last(AnswerLabel)
              /\ has(CorrectLabel)
                    => call.result.correct_option
                          = IF labelled # <<>> THEN labelled
                            ELSE ExtractOption(call.result.answer)

\* C21 witness: two answer lines with different values, the second kept
C21_Witness ==
    /\ call.fn = "parse_answer"
    /\ call.lines = <<<<"answer", ":", " ", "4", "2">>,
                      <<"answer", ":", " ", "C">>>>
    /\ call.result.answer = <<"C">>

WithoutSheets(faulty) ==
    [s \in DOMAIN call.sheets_config \ faulty |-> call.sheets_config[s]]

\* a configured sheet that is not loaded, whose configuration raises, or
\* that lacks its question column
Unusable(s) ==
    /\ s \in DOMAIN call.sheets_config
    /\ \/ s \notin DOMAIN call.cache
       \/ ~IsSheetConfig(call.sheets_config[s])
       \/ call.sheets_config[s].question_column \notin call.cache[s].columns

\* a searched sheet in whose scan the exact pass raises
RaisesInScan(s) == Searched(s) /\ call.cache[s].numeric

\* C23 as stated: a configured sheet that is not loaded, lacks its question
\* column or raises during its scan contributes nothing, and the call
\* returns what it returns without that sheet.
C23_FaultySheetOriginal ==
    call.fn = "search_question"
       => LET faulty == {s \in {"S1", "S2"} : Unusable(s) \/ RaisesInScan(s)}
          IN  /\ \A k \in DOMAIN call.all_results :
                    call.all_results[k].sheet_name \notin faulty
              /\ call.results
                    = SearchQuestion(call.question_text,
                                     WithoutSheets(faulty), call.cache,
                                     call.fuzzy_config)

\* C23 amended: a configured sheet that is not loaded, lacks its question
\* column, or whose scan raises outside the exact pass contributes nothing
\* and the call returns what it returns without that sheet; a sheet whose
\* exact pass raises contributes its fuzzy matches only.
C23_FaultySheetAmended ==
    call.fn = "search_question"
       => LET faulty == {s \in {"S1", "S2"} : Unusable(s)}
          IN  /\ \A k \in DOMAIN call.all_results :
                    LET r == call.all_results[k]
                    IN  /\ r.sheet_name \notin faulty
                        /\ RaisesInScan(r.sheet_name)
                              => r.matched_method = "fuzzy"
              /\ call.results
                    = SearchQuestion(call.question_text,
                                     WithoutSheets(faulty), call.cache,
                                     call.fuzzy_config)

\* C23 witness: the second sheet lacks its question column, the first
\* one still gives its match
C23_Witness ==
    /\ call.fn = "search_question"
    /\ "S2" \in DOMAIN call.cache
    /\ "S2" \in DOMAIN call.sheets_config
    /\ IsSheetConfig(call.sheets_config["S2"])
    /\ call.sheets_config["S2"].question_column = "Q"
    /\ call.results # <<>>
    /\ call.results[1].sheet_name = "S1"

\* the sheet holds the rows it held before and one more with the given values
OneMoreRow ==
    LET s == call.sheet_name
        config == call.sheets_config[s]
        before == call.cache_before[s].rows
        after == call.cache[s].rows
        last == after[Len(after)].cells
    IN  /\ Len(after) = Len(before) + 1
        /\ \A i \in DOMAIN before :
              \A c \in DOMAIN before[i].cells :
                 after[i].cells[c] = before[i].cells[c]
        /\ last[config.question_column] = call.question
        /\ last[config.correct_answer_column] = call.correct_answer
        /\ \A i \in DOMAIN call.options :
              /\ i \in DOMAIN config.answer_columns
              /\ last[config.answer_columns[i]] = call.options[i]

\* C24: when add_question returns True for a configured sheet, that sheet
\* of the bank holds exactly one more row with the given question, options
\* and correct answer, the other sheets are as before and the workbook
\* holds the new bank; when it returns False the bank is unchanged.
C24_AddQuestion ==
    call.fn = "add_question"
       => /\ call.returned
                => /\ call.sheet_name \in DOMAIN call.sheets_config
                   /\ call.sheet_name \in DOMAIN call.cache
                   /\ OneMoreRow
                   /\ \A s \in DOMAIN call.cache_before \ {call.sheet_name} :
                         call.cache[s] = call.cache_before[s]
                   /\ call.file = call.cache
          /\ ~call.returned => call.cache = call.cache_before

\* a shutdown was requested: a signal arrived or the exit hotkey was pressed
ShutdownRequested == app.signals > 0 \/ exit_presses > 0

\* the listener is not listening, its poll loop has stopped and the overlay
\* is destroyed
ShutDown ==
    /\ ~is_listening
    /\ loop_pc \in {"none", "exited"} \/ ~Alive
    /\ app.destroyed

\* C25: after a shutdown request (a signal, or the exit hotkey pressed) the
\* application eventually is in a state where the listener is not
\* listening, the poll loop has stopped and the overlay is destroyed.
C25_ShutdownCompletes == ShutdownRequested ~> ShutDown

\* C26: once start_listening has returned True and until stop_listening is
\* called (is_listening is still true), the poll loop is alive: the
\* listener thread has not left _listen_loop.
C26_PollLoopAlive ==
    (start_pc = "started" /\ is_listening) => loop_pc \in {"check", "poll"}

\* C27: once the listener is not listening any more, no step starts a new
\* thread for the trigger callback, whatever the queue still holds.
C27_NoThreadAfterStop ==
    [][(mode = "hotkey" /\ start_pc = "started" /\ ~is_listening)
          => Len(workers') = Len(workers)]_vars

\* C28: after the listener has stopped (it was started and is not listening
\* any more) no hotkey is registered.
C28_NoHotkeyAfterStop ==
    (start_pc = "started" /\ ~is_listening) => hotkeys_registered = {}

\* an invocation of the handler is between its busy check and its return
Running(w) == workers[w].pc \notin {"check", "done"}

\* C29: the counters are consistent: successful + failed never exceeds
\* total_requests and equals it when no pipeline is in flight;
\* excel_matches + api_calls never exceeds total_requests; and
\* successful_answers never exceeds excel_matches + api_calls.
C29_CountersConsistent ==
    /\ stats.successful_answers + stats.failed_answers
          <= stats.total_requests
    /\ (\A w \in DOMAIN workers : ~Running(w))
          => stats.successful_answers + stats.failed_answers
                = stats.total_requests
    /\ stats.excel_matches + stats.api_calls <= stats.total_requests
    /\ stats.successful_answers <= stats.excel_matches + stats.api_calls

\* C30: a query whose normalised form is empty matches no row of the bank:
\* search_question returns the empty list for it.
C30_EmptyQueryNoMatch ==
    (/\ call.fn = "search_question"
     /\ clean_question_text(call.question_text) = <<>>)
       => call.results = <<>>

====
